---- MODULE Spec2Model ----
(***************************************************************************)
(* A model of the concurrency, retry and cleaning core of airbnb-scraper:  *)
(*   utils.URLSet      (Add / Contains / Size under a sync.RWMutex)        *)
(*   utils.WorkerPool  (Submit / Wait / enforceRateLimit)                  *)
(*   utils.RetryConfig (Do)                                                *)
(*   services.Cleaner  (Clean, parsePrice, parseRating, parseLocation)     *)
(*   services.InsightService (Generate, normaliseLocation)                 *)
(*   airbnb.Scraper    (enrichListings on the WorkerPool)                  *)
(* Where the repository holds two versions of a function (parsePrice in    *)
(* cleaner.go and insights_test.go, Generate in insights.go and part_010)  *)
(* both are modelled and run on the same input.                            *)
(* Each component has its own specification over the shared variables; a   *)
(* component that a specification does not exercise stays in its initial   *)
(* state.                                                                  *)
(***************************************************************************)
EXTENDS Integers, Sequences, FiniteSets, TLC

\* ------------------------------------------------------------- bounds
\* goroutines calling the URLSet concurrently
NumCallers == 3
\* calls they make in total
MaxCalls == 4
\* tasks submitted to a WorkerPool
MaxTasks == 3
\* largest maxWorkers a WorkerPool is built with
MaxPoolWorkers == 2
\* largest rateLimitMs (in clock ticks) a WorkerPool is built with
MaxRateLimit == 1
\* the clock runs freely up to this tick, then only while a worker sleeps
MaxTime == 1
\* largest RetryConfig.MaxAttempts
MaxRetryAttempts == 3
\* largest RetryConfig.BaseDelay, in clock ticks
MaxBaseDelay == 2
\* raw listings in one batch handed to Cleaner.Clean
MaxBatch == 3
\* characters in a raw URL
MaxURLLen == 2
\* pieces ("$66", "for 2 nights", ...) in a raw price text
MaxPriceParts == 4
\* characters in a raw rating text
MaxRatingLen == 4
\* listings with prices and locations in a batch handed to Generate
MaxListings == 3
\* listings with ratings in a batch handed to Generate
MaxRated == 6
\* most pieces a location text is written from
MaxLocParts == 3

VARIABLES
    \* ---- URLSet (utils.URLSet)
    seen,       \* URLSet.seen: the set of keys of the map
    setMu,      \* URLSet.mu: [writer |-> caller or 0, readers |-> set of callers]
    upc,        \* caller -> position inside Add / Contains / Size
    ukey,       \* caller -> the url argument of its current call
    uexists,    \* caller -> the local `exists` of its current call
    uret,       \* caller -> the value its current call is about to return
    ucalls,     \* number of calls started so far (bounded by MaxCalls)
    addedKeys,  \* history: keys k for which some Add(k) has returned
    addTrue,    \* history: key -> number of Add(key) calls that returned true
    addFalse,   \* history: key -> number of Add(key) calls that returned false
    \* ---- WorkerPool (utils.WorkerPool)
    maxWorkers,   \* WorkerPool.maxWorkers, the capacity of the semaphore channel
    rateLimitMs,  \* WorkerPool.rateLimitMs, in clock ticks
    now,          \* the monotonic clock read by time.Now / time.Since
    sem,          \* number of tokens in WorkerPool.semaphore
    wg,           \* the counter of WorkerPool.wg
    poolMu,       \* WorkerPool.mu: the task whose goroutine holds it, or 0
    lastRequest,  \* WorkerPool.lastRequest
    mpc,          \* position of the goroutine that calls Submit and Wait
    nsub,         \* number of Submit calls started
    tpc,          \* task -> position of the goroutine Submit started for it
    twake,        \* task -> earliest tick at which its time.Sleep may return
    tstart,       \* history: task -> tick at which job() was entered, or -1
    waitFor,      \* history: tasks whose Submit had returned when Wait was called
    waited,       \* history: tasks covered by a Wait call that has returned
    \* ---- RetryConfig.Do (utils.RetryConfig)
    rMax,         \* RetryConfig.MaxAttempts
    rBase,        \* RetryConfig.BaseDelay
    rName,        \* the operationName argument
    rpc,          \* "loop" while Do runs, "done" once it has returned
    attempt,      \* the loop variable of Do
    lastErr,      \* the local lastErr of Do ("nil" or an error)
    delay,        \* the local delay of Do
    routs,        \* history: what each call of fn returned, in order
    sleeps,       \* history: the arguments of the time.Sleep calls, in order
    result,       \* what Do returned
    \* ---- Cleaner.Clean (services.Cleaner)
    raw,          \* the batch of RawListings collected so far / handed to Clean
    cleaned,      \* the []*Listing returned by Clean
    cpc,          \* "collect" while the batch is built, "cleaned" after Clean
    \* ---- Cleaner.parsePrice (services.Cleaner)
    rawPrice,     \* RawListing.RawPrice, the text handed to parsePrice
    priceParts,   \* history: the pieces rawPrice was written from, in order
    price,        \* what each version of parsePrice returned for rawPrice
    ppc,          \* "write" while the text is built, "parsed" after parsePrice
    \* ---- Cleaner.parseRating (services.Cleaner)
    rawRating,    \* RawListing.RawRating, the text handed to parseRating
    rating,       \* what parseRating returned, in hundredths
    gpc,          \* "write" while the text is built, "parsed" after parseRating
    \* ---- InsightService.Generate (services.InsightService)
    listings,     \* the []*Listing handed to Generate; a pointer is a position
    report,       \* the InsightReport each version of Generate returned
    arranged,     \* the rated listings as sort.Slice arranged them for this batch
    ipc,          \* "collect" while the batch is built, "done" after Generate,
                  \* "again" after a second Generate on the same batch
    \* ---- Cleaner.parseLocation
    rawLocation,  \* RawListing.Location, a sequence of characters
    locParts,     \* history: the number of pieces written into rawLocation
    pageText,     \* RawListing.RawPrice, the text parseLocation falls back on
    location,     \* the string parseLocation returned
    lpc,          \* "write" while the texts are written, "parsed" after the call
    \* ---- Scraper.enrichListings on the listings of one section
    esection,     \* sectionListings: the RawListings built from the cards
    epc,          \* the scraping goroutine: "cards", "loop", "read", "done"
    eidx,         \* the position of its loop over sectionListings
    etask,        \* history: the listing the closure of each pool task holds
    eall          \* s.listings

urlVars == <<seen, setMu, upc, ukey, uexists, uret, ucalls, addedKeys, addTrue, addFalse>>

poolVars == <<maxWorkers, rateLimitMs, now, sem, wg, poolMu, lastRequest, mpc, nsub,
              tpc, twake, tstart, waitFor, waited>>

retryVars == <<rMax, rBase, rName, rpc, attempt, lastErr, delay, routs, sleeps, result>>

cleanVars == <<raw, cleaned, cpc>>

priceVars == <<rawPrice, priceParts, price, ppc>>

ratingVars == <<rawRating, rating, gpc>>

insightVars == <<listings, report, arranged, ipc>>

locationVars == <<rawLocation, locParts, pageText, location, lpc>>

enrichVars == <<esection, epc, eidx, etask, eall>>

parseVars == <<priceVars, ratingVars, insightVars, locationVars, enrichVars>>

vars == <<urlVars, poolVars, retryVars, cleanVars, parseVars>>
nonURLVars == <<poolVars, retryVars, cleanVars, parseVars>>
nonPoolVars == <<urlVars, retryVars, cleanVars, parseVars>>
nonRetryVars == <<urlVars, poolVars, cleanVars, parseVars>>
nonCleanVars == <<urlVars, poolVars, retryVars, parseVars>>
nonPriceVars == <<urlVars, poolVars, retryVars, cleanVars, ratingVars, insightVars,
                  locationVars, enrichVars>>
nonRatingVars == <<urlVars, poolVars, retryVars, cleanVars, priceVars, insightVars,
                   locationVars, enrichVars>>
nonInsightVars == <<urlVars, poolVars, retryVars, cleanVars, priceVars, ratingVars,
                    locationVars, enrichVars>>
nonLocationVars == <<urlVars, poolVars, retryVars, cleanVars, priceVars, ratingVars,
                     insightVars, enrichVars>>
\* what a step of enrichListings, which calls Submit and Wait, leaves alone
nonEnrichVars == <<urlVars, retryVars, cleanVars, priceVars, ratingVars, insightVars,
                   locationVars>>

\* ============================================================= URLSet
Callers == 1..NumCallers
Keys == {"u1", "u2"}
NoKey == "none"

\* sync.RWMutex: Lock needs no writer and no reader, RLock needs no writer.
CanLock(m) == m.writer = 0 /\ m.readers = {}
CanRLock(m) == m.writer = 0

URLInit ==
    /\ seen = {}
    /\ setMu = [writer |-> 0, readers |-> {}]
    /\ upc = [p \in Callers |-> "idle"]
    /\ ukey = [p \in Callers |-> NoKey]
    /\ uexists = [p \in Callers |-> FALSE]
    /\ uret = [p \in Callers |-> FALSE]
    /\ ucalls = 0
    /\ addedKeys = {}
    /\ addTrue = [k \in Keys |-> 0]
    /\ addFalse = [k \in Keys |-> 0]

\* A caller starts one of the three operations.
CallAdd(p, k) ==
    /\ upc[p] = "idle" /\ ucalls < MaxCalls
    /\ upc' = [upc EXCEPT ![p] = "add_lock"]
    /\ ukey' = [ukey EXCEPT ![p] = k]
    /\ ucalls' = ucalls + 1
    /\ UNCHANGED <<seen, setMu, uexists, uret, addedKeys, addTrue, addFalse>>
    /\ UNCHANGED nonURLVars

CallContains(p, k) ==
    /\ upc[p] = "idle" /\ ucalls < MaxCalls
    /\ upc' = [upc EXCEPT ![p] = "con_lock"]
    /\ ukey' = [ukey EXCEPT ![p] = k]
    /\ ucalls' = ucalls + 1
    /\ UNCHANGED <<seen, setMu, uexists, uret, addedKeys, addTrue, addFalse>>
    /\ UNCHANGED nonURLVars

CallSize(p) ==
    /\ upc[p] = "idle" /\ ucalls < MaxCalls
    /\ upc' = [upc EXCEPT ![p] = "size_lock"]
    /\ ukey' = [ukey EXCEPT ![p] = NoKey]
    /\ ucalls' = ucalls + 1
    /\ UNCHANGED <<seen, setMu, uexists, uret, addedKeys, addTrue, addFalse>>
    /\ UNCHANGED nonURLVars

\* Add, line 72: s.mu.Lock() taken without waiting for the mutex (mutant)
AddLockNoMutex(p) ==
    /\ upc[p] = "add_lock"
    /\ setMu' = [setMu EXCEPT !.writer = p]
    /\ upc' = [upc EXCEPT ![p] = "add_check"]
    /\ UNCHANGED <<seen, ukey, uexists, uret, ucalls, addedKeys, addTrue, addFalse>>
    /\ UNCHANGED nonURLVars

\* Add, line 72: s.mu.Lock()
AddLock(p) ==
    /\ upc[p] = "add_lock"
    /\ CanLock(setMu)
    /\ setMu' = [setMu EXCEPT !.writer = p]
    /\ upc' = [upc EXCEPT ![p] = "add_check"]
    /\ UNCHANGED <<seen, ukey, uexists, uret, ucalls, addedKeys, addTrue, addFalse>>
    /\ UNCHANGED nonURLVars

\* Add, line 75: _, exists := s.seen[url]
AddCheck(p) ==
    /\ upc[p] = "add_check"
    /\ uexists' = [uexists EXCEPT ![p] = (ukey[p] \in seen)]
    /\ upc' = [upc EXCEPT ![p] = "add_store"]
    /\ UNCHANGED <<seen, setMu, ukey, uret, ucalls, addedKeys, addTrue, addFalse>>
    /\ UNCHANGED nonURLVars

\* Add, lines 75-79 with the `exists` test dropped (mutant)
AddStoreAlwaysTrue(p) ==
    /\ upc[p] = "add_store"
    /\ seen' = seen \cup {ukey[p]}
    /\ uret' = [uret EXCEPT ![p] = TRUE]
    /\ upc' = [upc EXCEPT ![p] = "add_unlock"]
    /\ UNCHANGED <<setMu, ukey, uexists, ucalls, addedKeys, addTrue, addFalse>>
    /\ UNCHANGED nonURLVars

\* Add, lines 75-79: if exists { return false }; s.seen[url] = struct{}{}; return true
AddStore(p) ==
    /\ upc[p] = "add_store"
    /\ IF uexists[p]
         THEN /\ seen' = seen
              /\ uret' = [uret EXCEPT ![p] = FALSE]
         ELSE /\ seen' = seen \cup {ukey[p]}
              /\ uret' = [uret EXCEPT ![p] = TRUE]
    /\ upc' = [upc EXCEPT ![p] = "add_unlock"]
    /\ UNCHANGED <<setMu, ukey, uexists, ucalls, addedKeys, addTrue, addFalse>>
    /\ UNCHANGED nonURLVars

\* Add, line 73: the deferred s.mu.Unlock(), and the return to the caller
AddUnlock(p) ==
    /\ upc[p] = "add_unlock"
    /\ setMu' = [setMu EXCEPT !.writer = IF @ = p THEN 0 ELSE @]
    /\ upc' = [upc EXCEPT ![p] = "idle"]
    /\ addedKeys' = addedKeys \cup {ukey[p]}
    /\ addTrue' = [addTrue EXCEPT ![ukey[p]] = IF uret[p] THEN @ + 1 ELSE @]
    /\ addFalse' = [addFalse EXCEPT ![ukey[p]] = IF uret[p] THEN @ ELSE @ + 1]
    /\ ukey' = [ukey EXCEPT ![p] = NoKey]
    /\ uexists' = [uexists EXCEPT ![p] = FALSE]
    /\ uret' = [uret EXCEPT ![p] = FALSE]
    /\ UNCHANGED <<seen, ucalls>>
    /\ UNCHANGED nonURLVars

\* Contains, line 84: s.mu.RLock()
ContainsRLock(p) ==
    /\ upc[p] = "con_lock"
    /\ CanRLock(setMu)
    /\ setMu' = [setMu EXCEPT !.readers = @ \cup {p}]
    /\ upc' = [upc EXCEPT ![p] = "con_read"]
    /\ UNCHANGED <<seen, ukey, uexists, uret, ucalls, addedKeys, addTrue, addFalse>>
    /\ UNCHANGED nonURLVars

\* Contains, lines 86-87: _, exists := s.seen[url]; return exists
ContainsRead(p) ==
    /\ upc[p] = "con_read"
    /\ uexists' = [uexists EXCEPT ![p] = (ukey[p] \in seen)]
    /\ uret' = [uret EXCEPT ![p] = (ukey[p] \in seen)]
    /\ upc' = [upc EXCEPT ![p] = "con_unlock"]
    /\ UNCHANGED <<seen, setMu, ukey, ucalls, addedKeys, addTrue, addFalse>>
    /\ UNCHANGED nonURLVars

\* Size, line 92: s.mu.RLock()
SizeRLock(p) ==
    /\ upc[p] = "size_lock"
    /\ CanRLock(setMu)
    /\ setMu' = [setMu EXCEPT !.readers = @ \cup {p}]
    /\ upc' = [upc EXCEPT ![p] = "size_read"]
    /\ UNCHANGED <<seen, ukey, uexists, uret, ucalls, addedKeys, addTrue, addFalse>>
    /\ UNCHANGED nonURLVars

\* Size, line 94: return len(s.seen)
SizeRead(p) ==
    /\ upc[p] = "size_read"
    /\ uret' = [uret EXCEPT ![p] = Cardinality(seen)]
    /\ upc' = [upc EXCEPT ![p] = "size_unlock"]
    /\ UNCHANGED <<seen, setMu, ukey, uexists, ucalls, addedKeys, addTrue, addFalse>>
    /\ UNCHANGED nonURLVars

\* Contains line 85 / Size line 93: the deferred s.mu.RUnlock(), and the return
\* (the call's locals die with it)
ReadUnlock(p) ==
    /\ upc[p] \in {"con_unlock", "size_unlock"}
    /\ setMu' = [setMu EXCEPT !.readers = @ \ {p}]
    /\ upc' = [upc EXCEPT ![p] = "idle"]
    /\ ukey' = [ukey EXCEPT ![p] = NoKey]
    /\ uexists' = [uexists EXCEPT ![p] = FALSE]
    /\ uret' = [uret EXCEPT ![p] = FALSE]
    /\ UNCHANGED <<seen, ucalls, addedKeys, addTrue, addFalse>>
    /\ UNCHANGED nonURLVars

URLNext ==
    \/ \E p \in Callers, k \in Keys : CallAdd(p, k)
    \/ \E p \in Callers, k \in Keys : CallContains(p, k)
    \/ \E p \in Callers : CallSize(p)
    \/ \E p \in Callers : AddLock(p)
    \/ \E p \in Callers : AddCheck(p)
    \/ \E p \in Callers : AddStore(p)
    \/ \E p \in Callers : AddUnlock(p)
    \/ \E p \in Callers : ContainsRLock(p)
    \/ \E p \in Callers : ContainsRead(p)
    \/ \E p \in Callers : SizeRLock(p)
    \/ \E p \in Callers : SizeRead(p)
    \/ \E p \in Callers : ReadUnlock(p)

\* ========================================================= WorkerPool
Tasks == 1..MaxTasks

\* NewWorkerPool(mw, rl): an empty semaphore of capacity mw, lastRequest = time.Now()
PoolInitWith(mw, rl) ==
    /\ maxWorkers = mw
    /\ rateLimitMs = rl
    /\ now = 0
    /\ sem = 0
    /\ wg = 0
    /\ poolMu = 0
    /\ lastRequest = 0
    /\ mpc = "idle"
    /\ nsub = 0
    /\ tpc = [t \in Tasks |-> "none"]
    /\ twake = [t \in Tasks |-> 0]
    /\ tstart = [t \in Tasks |-> -1]
    /\ waitFor = {}
    /\ waited = {}

\* NewWorkerPool, lines 19-26, checks neither argument: make(chan struct{}, 0)
\* is a channel without a buffer (a negative size panics inside make)
PoolInit == \E mw \in 0..MaxPoolWorkers, rl \in 0..MaxRateLimit : PoolInitWith(mw, rl)
PoolIdle == PoolInitWith(1, 0)

\* Time passes. Past MaxTime it passes only while some time.Sleep is pending.
Tick ==
    /\ \/ now < MaxTime
       \/ \E t \in Tasks : tpc[t] = "gate_sleep" /\ twake[t] > now
    /\ now' = now + 1
    /\ UNCHANGED <<maxWorkers, rateLimitMs, sem, wg, poolMu, lastRequest, mpc, nsub,
                   tpc, twake, tstart, waitFor, waited>>
    /\ UNCHANGED nonPoolVars

\* Submit, line 30 with the wg.Add(1) left out (mutant)
SubmitAddMissing ==
    /\ mpc = "idle" /\ nsub < MaxTasks
    /\ nsub' = nsub + 1
    /\ mpc' = "submit_sem"
    /\ UNCHANGED <<maxWorkers, rateLimitMs, now, sem, wg, poolMu, lastRequest,
                   tpc, twake, tstart, waitFor, waited>>
    /\ UNCHANGED nonPoolVars

\* Submit, line 30: wg.Add(1)
SubmitAdd ==
    /\ mpc = "idle" /\ nsub < MaxTasks
    /\ nsub' = nsub + 1
    /\ wg' = wg + 1
    /\ mpc' = "submit_sem"
    /\ UNCHANGED <<maxWorkers, rateLimitMs, now, sem, poolMu, lastRequest,
                   tpc, twake, tstart, waitFor, waited>>
    /\ UNCHANGED nonPoolVars

\* Submit, line 31 on a channel that never fills (mutant)
SubmitSendUnbounded ==
    /\ mpc = "submit_sem"
    /\ sem' = sem + 1
    /\ mpc' = "submit_go"
    /\ UNCHANGED <<maxWorkers, rateLimitMs, now, wg, poolMu, lastRequest, nsub,
                   tpc, twake, tstart, waitFor, waited>>
    /\ UNCHANGED nonPoolVars

\* Submit, line 31: wp.semaphore <- struct{}{} blocks while the channel is full
SubmitSend ==
    /\ mpc = "submit_sem"
    /\ sem < maxWorkers
    /\ sem' = sem + 1
    /\ mpc' = "submit_go"
    /\ UNCHANGED <<maxWorkers, rateLimitMs, now, wg, poolMu, lastRequest, nsub,
                   tpc, twake, tstart, waitFor, waited>>
    /\ UNCHANGED nonPoolVars

\* Submit, lines 33-40: go func() {...}() and the return to the caller
SubmitGo ==
    /\ mpc = "submit_go"
    /\ tpc' = [tpc EXCEPT ![nsub] = "gate_lock"]
    /\ mpc' = "idle"
    /\ UNCHANGED <<maxWorkers, rateLimitMs, now, sem, wg, poolMu, lastRequest, nsub,
                   twake, tstart, waitFor, waited>>
    /\ UNCHANGED nonPoolVars

\* enforceRateLimit, line 48 without the mutex (mutant)
GateLockNoMutex(t) ==
    /\ tpc[t] = "gate_lock"
    /\ poolMu' = t
    /\ tpc' = [tpc EXCEPT ![t] = "gate_read"]
    /\ UNCHANGED <<maxWorkers, rateLimitMs, now, sem, wg, lastRequest, mpc, nsub,
                   twake, tstart, waitFor, waited>>
    /\ UNCHANGED nonPoolVars

\* enforceRateLimit, line 48: wp.mu.Lock()
GateLock(t) ==
    /\ tpc[t] = "gate_lock"
    /\ poolMu = 0
    /\ poolMu' = t
    /\ tpc' = [tpc EXCEPT ![t] = "gate_read"]
    /\ UNCHANGED <<maxWorkers, rateLimitMs, now, sem, wg, lastRequest, mpc, nsub,
                   twake, tstart, waitFor, waited>>
    /\ UNCHANGED nonPoolVars

\* enforceRateLimit, lines 51-55: elapsed := time.Since(lastRequest);
\* if elapsed < minInterval { time.Sleep(minInterval - elapsed) }
GateRead(t) ==
    /\ tpc[t] = "gate_read"
    /\ LET elapsed == now - lastRequest IN
         IF elapsed < rateLimitMs
           THEN /\ twake' = [twake EXCEPT ![t] = now + (rateLimitMs - elapsed)]
                /\ tpc' = [tpc EXCEPT ![t] = "gate_sleep"]
           ELSE /\ twake' = twake
                /\ tpc' = [tpc EXCEPT ![t] = "gate_stamp"]
    /\ UNCHANGED <<maxWorkers, rateLimitMs, now, sem, wg, poolMu, lastRequest, mpc,
                   nsub, tstart, waitFor, waited>>
    /\ UNCHANGED nonPoolVars

\* enforceRateLimit, line 54: time.Sleep returns, no earlier than asked
GateWake(t) ==
    /\ tpc[t] = "gate_sleep"
    /\ now >= twake[t]
    /\ tpc' = [tpc EXCEPT ![t] = "gate_stamp"]
    /\ twake' = [twake EXCEPT ![t] = 0]
    /\ UNCHANGED <<maxWorkers, rateLimitMs, now, sem, wg, poolMu, lastRequest, mpc,
                   nsub, tstart, waitFor, waited>>
    /\ UNCHANGED nonPoolVars

\* enforceRateLimit, line 56: wp.lastRequest = time.Now()
GateStamp(t) ==
    /\ tpc[t] = "gate_stamp"
    /\ lastRequest' = now
    /\ tpc' = [tpc EXCEPT ![t] = "gate_unlock"]
    /\ UNCHANGED <<maxWorkers, rateLimitMs, now, sem, wg, poolMu, mpc, nsub,
                   twake, tstart, waitFor, waited>>
    /\ UNCHANGED nonPoolVars

\* enforceRateLimit, line 49: the deferred wp.mu.Unlock()
GateUnlock(t) ==
    /\ tpc[t] = "gate_unlock"
    /\ poolMu' = 0
    /\ tpc' = [tpc EXCEPT ![t] = "job_start"]
    /\ UNCHANGED <<maxWorkers, rateLimitMs, now, sem, wg, lastRequest, mpc, nsub,
                   twake, tstart, waitFor, waited>>
    /\ UNCHANGED nonPoolVars

\* Submit, line 38: job() is entered
JobStart(t) ==
    /\ tpc[t] = "job_start"
    /\ tstart' = [tstart EXCEPT ![t] = now]
    /\ tpc' = [tpc EXCEPT ![t] = "job_run"]
    /\ UNCHANGED <<maxWorkers, rateLimitMs, now, sem, wg, poolMu, lastRequest, mpc,
                   nsub, twake, waitFor, waited>>
    /\ UNCHANGED nonPoolVars

\* Submit, line 38: job() returns
JobEnd(t) ==
    /\ tpc[t] = "job_run"
    /\ tpc' = [tpc EXCEPT ![t] = "release"]
    /\ UNCHANGED <<maxWorkers, rateLimitMs, now, sem, wg, poolMu, lastRequest, mpc,
                   nsub, twake, tstart, waitFor, waited>>
    /\ UNCHANGED nonPoolVars

\* Submit, line 35 with the receive left out: the slot is kept (mutant)
ReleaseMissing(t) ==
    /\ tpc[t] = "release"
    /\ tpc' = [tpc EXCEPT ![t] = "wg_done"]
    /\ UNCHANGED <<maxWorkers, rateLimitMs, now, sem, wg, poolMu, lastRequest, mpc, nsub,
                   twake, tstart, waitFor, waited>>
    /\ UNCHANGED nonPoolVars

\* Submit, line 35: the deferred <-wp.semaphore
Release(t) ==
    /\ tpc[t] = "release"
    /\ sem > 0
    /\ sem' = sem - 1
    /\ tpc' = [tpc EXCEPT ![t] = "wg_done"]
    /\ UNCHANGED <<maxWorkers, rateLimitMs, now, wg, poolMu, lastRequest, mpc, nsub,
                   twake, tstart, waitFor, waited>>
    /\ UNCHANGED nonPoolVars

\* Submit, line 34: the deferred wp.wg.Done()
WgDone(t) ==
    /\ tpc[t] = "wg_done"
    /\ wg' = wg - 1
    /\ tpc' = [tpc EXCEPT ![t] = "finished"]
    /\ UNCHANGED <<maxWorkers, rateLimitMs, now, sem, poolMu, lastRequest, mpc, nsub,
                   twake, tstart, waitFor, waited>>
    /\ UNCHANGED nonPoolVars

\* Wait, line 43: the call; every Submit so far has returned
WaitCall ==
    /\ mpc = "idle"
    /\ mpc' = "wait"
    /\ waitFor' = 1..nsub
    /\ UNCHANGED <<maxWorkers, rateLimitMs, now, sem, wg, poolMu, lastRequest, nsub,
                   tpc, twake, tstart, waited>>
    /\ UNCHANGED nonPoolVars

\* Wait, line 44: wp.wg.Wait() returns when the counter is zero
WaitReturn ==
    /\ mpc = "wait"
    /\ wg = 0
    /\ mpc' = "idle"
    /\ waited' = waitFor
    /\ UNCHANGED <<maxWorkers, rateLimitMs, now, sem, wg, poolMu, lastRequest, nsub,
                   tpc, twake, tstart, waitFor>>
    /\ UNCHANGED nonPoolVars

PoolNext ==
    \/ Tick
    \/ SubmitAdd
    \/ SubmitSend
    \/ SubmitGo
    \/ \E t \in Tasks : GateLock(t)
    \/ \E t \in Tasks : GateRead(t)
    \/ \E t \in Tasks : GateWake(t)
    \/ \E t \in Tasks : GateStamp(t)
    \/ \E t \in Tasks : GateUnlock(t)
    \/ \E t \in Tasks : JobStart(t)
    \/ \E t \in Tasks : JobEnd(t)
    \/ \E t \in Tasks : Release(t)
    \/ \E t \in Tasks : WgDone(t)
    \/ WaitCall
    \/ WaitReturn

\* ===================================================== RetryConfig.Do
NoErr == "nil"
Errs == {"e1", "e2"}
OpNames == {"goto", "insert"}
\* the nil error, and fmt.Errorf("%s failed after %d attempts: %w", name, n, err)
NilError == [isNil |-> TRUE, name |-> "", attempts |-> 0, wraps |-> NoErr]
WrappedError(name, n, err) == [isNil |-> FALSE, name |-> name, attempts |-> n, wraps |-> err]

\* Do, lines 155-156: var lastErr error; delay := r.BaseDelay; attempt := 1
RetryInitWith(max, base, name) ==
    /\ rMax = max
    /\ rBase = base
    /\ rName = name
    /\ rpc = "loop"
    /\ attempt = 1
    /\ lastErr = NoErr
    /\ delay = base
    /\ routs = <<>>
    /\ sleeps = <<>>
    /\ result = NilError

RetryInit ==
    \E max \in -1..MaxRetryAttempts, base \in 0..MaxBaseDelay, name \in OpNames :
        RetryInitWith(max, base, name)
RetryIdle == RetryInitWith(1, 0, "goto")

\* Do, line 158 with the last attempt cut off (mutant)
MoreAttemptsStrict(a, max) == a < max

\* Do, line 158: attempt <= r.MaxAttempts
MoreAttempts(a, max) == a <= max

\* Do, lines 159-169 without the return on success (mutant)
RetryAttemptNoReturn(out) ==
    /\ rpc = "loop"
    /\ MoreAttempts(attempt, rMax)
    /\ lastErr' = out
    /\ routs' = Append(routs, out)
    /\ IF attempt < rMax
         THEN /\ sleeps' = Append(sleeps, delay)
              /\ delay' = delay * 2
         ELSE /\ UNCHANGED <<sleeps, delay>>
    /\ attempt' = attempt + 1
    /\ UNCHANGED <<rpc, result>>
    /\ UNCHANGED <<rMax, rBase, rName>>
    /\ UNCHANGED nonRetryVars

\* Do, lines 159-169 with the sleep outside the test of line 164 and a delay
\* that grows by BaseDelay (mutant)
RetryAttemptSleepsAlways(out) ==
    /\ rpc = "loop"
    /\ MoreAttempts(attempt, rMax)
    /\ lastErr' = out
    /\ routs' = Append(routs, out)
    /\ IF out = NoErr
         THEN /\ rpc' = "done"
              /\ result' = NilError
              /\ UNCHANGED <<attempt, sleeps, delay>>
         ELSE /\ sleeps' = Append(sleeps, delay)
              /\ delay' = delay + rBase
              /\ attempt' = attempt + 1
              /\ UNCHANGED <<rpc, result>>
    /\ UNCHANGED <<rMax, rBase, rName>>
    /\ UNCHANGED nonRetryVars

\* Do, lines 159-169: one round of the loop; fn returns out
RetryAttempt(out) ==
    /\ rpc = "loop"
    /\ MoreAttempts(attempt, rMax)
    /\ lastErr' = out
    /\ routs' = Append(routs, out)
    /\ IF out = NoErr
         THEN /\ rpc' = "done"
              /\ result' = NilError
              /\ UNCHANGED <<attempt, sleeps, delay>>
         ELSE /\ IF attempt < rMax
                   THEN /\ sleeps' = Append(sleeps, delay)
                        /\ delay' = delay * 2
                   ELSE /\ UNCHANGED <<sleeps, delay>>
              /\ attempt' = attempt + 1
              /\ UNCHANGED <<rpc, result>>
    /\ UNCHANGED <<rMax, rBase, rName>>
    /\ UNCHANGED nonRetryVars

\* Do, line 172 with the error formatted by %v, not wrapped (mutant)
RetryExhaustedStringified ==
    /\ rpc = "loop"
    /\ ~MoreAttempts(attempt, rMax)
    /\ rpc' = "done"
    /\ result' = WrappedError(rName, rMax, NoErr)
    /\ UNCHANGED <<rMax, rBase, rName, attempt, lastErr, delay, routs, sleeps>>
    /\ UNCHANGED nonRetryVars

\* Do, line 172 returning lastErr itself (mutant)
RetryExhaustedReturnsLast ==
    /\ rpc = "loop"
    /\ ~MoreAttempts(attempt, rMax)
    /\ rpc' = "done"
    /\ result' = IF lastErr = NoErr THEN NilError ELSE WrappedError(rName, rMax, lastErr)
    /\ UNCHANGED <<rMax, rBase, rName, attempt, lastErr, delay, routs, sleeps>>
    /\ UNCHANGED nonRetryVars

\* Do, line 172: the loop is over; return the wrapped last error
RetryExhausted ==
    /\ rpc = "loop"
    /\ ~MoreAttempts(attempt, rMax)
    /\ rpc' = "done"
    /\ result' = WrappedError(rName, rMax, lastErr)
    /\ UNCHANGED <<rMax, rBase, rName, attempt, lastErr, delay, routs, sleeps>>
    /\ UNCHANGED nonRetryVars

RetryNext ==
    \/ \E out \in Errs \cup {NoErr} : RetryAttempt(out)
    \/ RetryExhausted

\* ====================================================== Cleaner.Clean
\* Strings are sequences of characters.
Chars == {" ", "a"}
IsSpace(c) == c \in {" ", "\t", "\n", "\r"}

RECURSIVE TrimLeft(_)
TrimLeft(str) ==
    IF str = <<>> THEN str
    ELSE IF IsSpace(Head(str)) THEN TrimLeft(Tail(str)) ELSE str

RECURSIVE TrimRight(_)
TrimRight(str) ==
    IF str = <<>> THEN str
    ELSE IF IsSpace(str[Len(str)]) THEN TrimRight(SubSeq(str, 1, Len(str) - 1)) ELSE str

\* strings.TrimSpace: leading and trailing white space removed
TrimSpace(str) == TrimRight(TrimLeft(str))

RECURSIVE StringsUpTo(_)
StringsUpTo(n) ==
    IF n = 0 THEN {<<>>}
    ELSE LET shorter == StringsUpTo(n - 1) IN
         shorter \cup {Append(str, c) : str \in shorter, c \in Chars}
RawURLs == StringsUpTo(MaxURLLen)

\* ================================= Cleaner.parsePrice / Cleaner.parseRating
\* Texts are sequences of characters; amounts of money are counted in cents
\* and a price is the fraction num / den of cents; ratings in hundredths.
Digits == <<"0", "1", "2", "3", "4", "5", "6", "7", "8", "9">>
IsDigit(c) == \E d \in 1..10 : Digits[d] = c
\* \w and \b of the regular expressions, over the characters texts are made of
IsWord(c) == c \notin {" ", "\t", "\n", "\r", "$", ",", ".", "/"}
Night == <<"n", "i", "g", "h", "t">>

\* strconv.Atoi of a run of digits
RECURSIVE Atoi(_)
Atoi(ds) ==
    IF ds = <<>> THEN 0
    ELSE 10 * Atoi(SubSeq(ds, 1, Len(ds) - 1))
           + (CHOOSE d \in 0..9 : Digits[d + 1] = ds[Len(ds)])

\* the literal lit stands at position i of str
HasAt(str, i, lit) ==
    i >= 1 /\ i + Len(lit) - 1 <= Len(str) /\ SubSeq(str, i, i + Len(lit) - 1) = lit

\* greedy X*: the first position from i on that holds no character of class In
RunEnd(str, i, In(_)) ==
    CHOOSE j \in i..(Len(str) + 1) :
        /\ \A k \in i..(j - 1) : In(str[k])
        /\ j = Len(str) + 1 \/ ~In(str[j])

\* greedy (?:,\d{3})* from position j
RECURSIVE GroupsEnd(_, _)
GroupsEnd(str, j) ==
    IF j + 3 <= Len(str) /\ str[j] = "," /\ \A k \in 1..3 : IsDigit(str[j + k])
    THEN GroupsEnd(str, j + 4) ELSE j

\* greedy \d+(?:,\d{3})*(?:\.\d{2})? from position i; i itself when no digit
AmountEnd(str, i) ==
    LET d == RunEnd(str, i, IsDigit)
        g == GroupsEnd(str, d)
    IN  IF d = i THEN i
        ELSE IF g + 2 <= Len(str) /\ str[g] = "." /\ IsDigit(str[g + 1]) /\ IsDigit(str[g + 2])
             THEN g + 3 ELSE g

\* a match: its capture groups and the position after it
NoMatch == [ok |-> FALSE, g1 |-> <<>>, g2 |-> <<>>, next |-> 0]
Match(a, b, n) == [ok |-> TRUE, g1 |-> a, g2 |-> b, next |-> n]

\* regexp.FindStringSubmatch: the match at the least position that has one
Leftmost(str, from, At(_, _)) ==
    LET hits == {i \in from..Len(str) : At(str, i).ok}
    IN  IF hits = {} THEN NoMatch
        ELSE At(str, CHOOSE i \in hits : \A j \in hits : i <= j)

\* priceRegexp at position i: \$\s*(\d+(?:,\d{3})*(?:\.\d{2})?)
priceRegexp(str, i) ==
    IF str[i] # "$" THEN NoMatch
    ELSE LET a == RunEnd(str, i + 1, IsSpace)
             e == AmountEnd(str, a)
         IN  IF e = a THEN NoMatch ELSE Match(SubSeq(str, a, e - 1), <<>>, e)

\* priceRegexp.FindAllStringSubmatch(raw, -1): the amounts matched from i on
RECURSIVE FindAllPrices(_, _)
FindAllPrices(str, i) ==
    LET m == Leftmost(str, i, priceRegexp)
    IN  IF m.ok THEN <<m.g1>> \o FindAllPrices(str, m.next) ELSE <<>>

\* nightsRegexp at position i: (\d+)\s*nights?
nightsRegexp(str, i) ==
    LET d == RunEnd(str, i, IsDigit)
        w == RunEnd(str, d, IsSpace)
    IN  IF d > i /\ HasAt(str, w, Night)
        THEN Match(SubSeq(str, i, d - 1), <<>>,
                   IF HasAt(str, w + 5, <<"s">>) THEN w + 6 ELSE w + 5)
        ELSE NoMatch

\* totalForNightsRegexp at position i: \$\s*(amount)\s+for\s+(\d+)\s*nights?
totalForNightsRegexp(str, i) ==
    LET Nights(m, n) == IF n.ok THEN Match(m.g1, n.g1, n.next) ELSE NoMatch
        For(m, b, d) ==
            IF /\ b > m.next /\ HasAt(str, b, <<"f", "o", "r">>)
               /\ d > b + 3 /\ d <= Len(str)
            THEN Nights(m, nightsRegexp(str, d))
            ELSE NoMatch
        Gap(m, b) == For(m, b, RunEnd(str, b + 3, IsSpace))
        Amount(m) == IF m.ok THEN Gap(m, RunEnd(str, m.next, IsSpace)) ELSE NoMatch
    IN  Amount(priceRegexp(str, i))

\* perNightRegexp at position i:
\* \$\s*(amount)\s*(?:/\s*night|per\s+night|\bnight\b)
perNightRegexp(str, i) ==
    LET Unit(m, p, q) ==
            IF \/ HasAt(str, p, <<"/">>) /\ HasAt(str, RunEnd(str, p + 1, IsSpace), Night)
               \/ HasAt(str, p, <<"p", "e", "r">>) /\ q > p + 3 /\ HasAt(str, q, Night)
               \/ /\ HasAt(str, p, Night)
                  /\ ~IsWord(str[p - 1])
                  /\ p + 5 > Len(str) \/ ~IsWord(str[p + 5])
            THEN Match(m.g1, <<>>, p)
            ELSE NoMatch
        Gap(m, p) == Unit(m, p, RunEnd(str, p + 3, IsSpace))
        Amount(m) == IF m.ok THEN Gap(m, RunEnd(str, m.next, IsSpace)) ELSE NoMatch
    IN  Amount(priceRegexp(str, i))

\* parseDollarAmount, in cents: commas removed, then strconv.ParseFloat
parseDollarAmount(str) ==
    LET t == SelectSeq(str, LAMBDA c : c # ",")
        whole == RunEnd(t, 1, IsDigit)
    IN  IF whole > Len(t) THEN 100 * Atoi(t)
        ELSE 100 * Atoi(SubSeq(t, 1, whole - 1)) + Atoi(SubSeq(t, whole + 1, Len(t)))

Ratio(n, d) == [num |-> n, den |-> d]
\* math.Round(x * 100) / 100 of x = n / d cents, d > 0, n >= 0
RoundToCent(n, d) == (2 * n + d) \div (2 * d)
NotAvailable == <<"N", "/", "A">>
\* the sanity ceiling of strategy 3, in cents
PriceCeiling == 1000000

\* parsePrice of cleaner.go, lines 70-119: the lowest amount, divided by the
\* number of nights when nightsRegexp finds more than one
parsePrice(rawText) ==
    LET Values(amounts) == [k \in 1..Len(amounts) |-> parseDollarAmount(amounts[k])]
        Lowest(prices) == CHOOSE v \in {prices[k] : k \in 1..Len(prices)} :
                              \A k \in 1..Len(prices) : v <= prices[k]
        PerNight(finalPrice, nightsMatch) ==
            IF nightsMatch.ok /\ Atoi(nightsMatch.g1) > 1
            THEN Ratio(finalPrice, Atoi(nightsMatch.g1))
            ELSE Ratio(finalPrice, 1)
        Lowered(prices) ==
            IF prices = <<>> THEN Ratio(0, 1)
            ELSE PerNight(Lowest(prices), Leftmost(rawText, 1, nightsRegexp))
    IN  IF rawText = <<>> \/ rawText = NotAvailable THEN Ratio(0, 1)
        ELSE Lowered(SelectSeq(Values(FindAllPrices(rawText, 1)), LAMBDA v : v > 0))

\* parsePrice of insights_test.go, lines 299-343: three strategies in order
parsePriceByStrategy(rawText) ==
    LET Values(amounts) == [k \in 1..Len(amounts) |-> parseDollarAmount(amounts[k])]
        Usable(vals) == {k \in 1..Len(vals) : vals[k] > 0 /\ vals[k] < PriceCeiling}
        First(vals, usable) ==
            IF usable # {}
            THEN Ratio(vals[CHOOSE k \in usable : \A j \in usable : k <= j], 1)
            ELSE Ratio(0, 1)
        Strategy3(vals) == First(vals, Usable(vals))
        Strategy2(perNight) ==
            IF perNight.ok /\ parseDollarAmount(perNight.g1) > 0
            THEN Ratio(parseDollarAmount(perNight.g1), 1)
            ELSE Strategy3(Values(FindAllPrices(rawText, 1)))
        Strategy1(total) ==
            IF total.ok /\ parseDollarAmount(total.g1) > 0 /\ Atoi(total.g2) > 0
            THEN Ratio(RoundToCent(parseDollarAmount(total.g1), Atoi(total.g2)), 1)
            ELSE Strategy2(Leftmost(rawText, 1, perNightRegexp))
    IN  IF rawText = <<>> \/ rawText = NotAvailable THEN Ratio(0, 1)
        ELSE Strategy1(Leftmost(rawText, 1, totalForNightsRegexp))

\* ratingRegexp at position i: \b([0-5](?:\.\d{1,2})?)\b
ratingRegexp(str, i) ==
    LET Edge(e) == e > Len(str) \/ ~IsWord(str[e])
        frac(n) == /\ i + n <= Len(str) /\ str[i + 1] = "."
                   /\ \A k \in 2..n : IsDigit(str[i + k])
                   /\ Edge(i + n + 1)
    IN  IF ~(str[i] \in {"0", "1", "2", "3", "4", "5"} /\ (i = 1 \/ ~IsWord(str[i - 1])))
        THEN NoMatch
        ELSE IF frac(3) THEN Match(SubSeq(str, i, i + 3), <<>>, i + 4)
        ELSE IF frac(2) THEN Match(SubSeq(str, i, i + 2), <<>>, i + 3)
        ELSE IF Edge(i + 1) THEN Match(<<str[i]>>, <<>>, i + 1)
        ELSE NoMatch

\* parseRating, cleaner.go lines 121-134, in hundredths
parseRating(rawText) ==
    LET match == Leftmost(rawText, 1, ratingRegexp)
        val == 100 * Atoi(<<match.g1[1]>>)
                 + (IF Len(match.g1) = 3 THEN 10 * Atoi(<<match.g1[3]>>)
                    ELSE IF Len(match.g1) = 4 THEN Atoi(SubSeq(match.g1, 3, 4))
                    ELSE 0)
    IN  IF ~match.ok THEN 0
        ELSE IF val < 0 \/ val > 500 THEN 0
        ELSE val

\* the pieces price texts are written from: n is the amount in cents or the
\* number of nights
PricePieces ==
    { [kind |-> "amount", n |-> 5000, text |-> <<"$", "5", "0">>],
      [kind |-> "amount", n |-> 6600, text |-> <<"$", "6", "6">>],
      [kind |-> "amount", n |-> 14200, text |-> <<"$", "1", "4", "2">>],
      [kind |-> "amount", n |-> 1200000, text |-> <<"$", "1", "2", ",", "0", "0", "0">>],
      [kind |-> "for", n |-> 1, text |-> <<"f", "o", "r", " ", "1", " ">> \o Night],
      [kind |-> "for", n |-> 2, text |-> <<"f", "o", "r", " ", "2", " ">> \o Night \o <<"s">>],
      [kind |-> "for", n |-> 3, text |-> <<"f", "o", "r", " ", "3", " ">> \o Night \o <<"s">>],
      [kind |-> "per", n |-> 0, text |-> <<"p", "e", "r", " ">> \o Night] }

PriceInit ==
    /\ rawPrice = <<>>
    /\ priceParts = <<>>
    /\ price = [cleaner |-> Ratio(0, 1), strategies |-> Ratio(0, 1)]
    /\ ppc = "write"

\* The scraper writes one more piece into RawPrice, pieces a space apart.
PriceWrite(piece) ==
    /\ ppc = "write"
    /\ Len(priceParts) < MaxPriceParts
    /\ rawPrice' = (IF rawPrice = <<>> THEN piece.text
                    ELSE rawPrice \o <<" ">> \o piece.text)
    /\ priceParts' = Append(priceParts, piece)
    /\ UNCHANGED <<price, ppc>>
    /\ UNCHANGED nonPriceVars

\* Clean, line 51, calls parsePrice(r.RawPrice): both versions of the function
ParsePriceCall ==
    /\ ppc = "write"
    /\ price' = [cleaner |-> parsePrice(rawPrice),
                 strategies |-> parsePriceByStrategy(rawPrice)]
    /\ ppc' = "parsed"
    /\ UNCHANGED <<rawPrice, priceParts>>
    /\ UNCHANGED nonPriceVars

PriceNext ==
    \/ \E piece \in PricePieces : PriceWrite(piece)
    \/ ParsePriceCall

RatingChars == {"0", "1", "5", "6", ".", " "}

RatingInit ==
    /\ rawRating = <<>>
    /\ rating = 0
    /\ gpc = "write"

\* The scraper writes one more character into RawRating.
RatingWrite(c) ==
    /\ gpc = "write"
    /\ Len(rawRating) < MaxRatingLen
    /\ rawRating' = Append(rawRating, c)
    /\ UNCHANGED <<rating, gpc>>
    /\ UNCHANGED nonRatingVars

\* Clean, line 53, calls parseRating(r.RawRating)
ParseRatingCall ==
    /\ gpc = "write"
    /\ rating' = parseRating(rawRating)
    /\ gpc' = "parsed"
    /\ UNCHANGED rawRating
    /\ UNCHANGED nonRatingVars

RatingNext ==
    \/ \E c \in RatingChars : RatingWrite(c)
    \/ ParseRatingCall

\* ================================================ InsightService.Generate
\* Prices are counted in thousandths of a dollar, ratings in hundredths.
Prices == {0, 33333, 50000}
Ratings == {0, 450, 490}
Locations == {<<>>, <<"B">>, <<"T">>, <<"B", ",", "x">>, <<",", "B">>}
\* math.MaxFloat64, above every price
MaxFloat64 == 1000000000
\* the length of TopRated
TopN == 5

\* the positions of the listings kept by a test of the loop, in input order
Indices(ls, Keep(_)) ==
    SelectSeq([i \in 1..Len(ls) |-> i], LAMBDA i : Keep(ls[i]))
\* Generate, line 38: l.Price > 0
IsPriced(l) == l.Price > 0
\* a test that lets every listing into the rated ones (mutant)
IsRatedOrNot(l) == TRUE
\* Generate, line 41: l.Rating > 0
IsRated(l) == l.Rating > 0

\* the loop over the listings with Price > 0, from the k-th on
RECURSIVE PriceLoop(_, _, _, _)
PriceLoop(ls, idxs, k, acc) ==
    IF k > Len(idxs) THEN acc
    ELSE LET l == ls[idxs[k]]
             lower == IF l.Price < acc.min THEN l.Price ELSE acc.min
             higher == l.Price > acc.max
         IN  PriceLoop(ls, idxs, k + 1,
                 [total |-> acc.total + l.Price,
                  min |-> lower,
                  max |-> IF higher THEN l.Price ELSE acc.max,
                  most |-> IF higher THEN idxs[k] ELSE acc.most])

\* round2 of n / d thousandths: int(f*100+0.5)/100 and math.Round(f*100)/100
\* agree on f >= 0
round2(n, d) == 10 * ((2 * n + 10 * d) \div (20 * d))

\* sort.Slice by descending Rating: the order of listings with equal ratings
\* is not determined ("The sort is not guaranteed to be stable"), so every
\* arrangement that is sorted is an outcome
RECURSIVE SortOutcomes(_, _)
SortOutcomes(ls, S) ==
    IF S = {} THEN {<<>>}
    ELSE LET first == {x \in S : \A y \in S : ~(ls[y].Rating > ls[x].Rating)}
         IN  UNION {{<<x>> \o rest : rest \in SortOutcomes(ls, S \ {x})} : x \in first}

\* normaliseLocation, part_010 lines 156-167
normaliseLocation(rawText) ==
    LET t == TrimSpace(rawText)
        Cut(str, sep) ==
            LET at == {i \in 1..Len(str) : str[i] = sep}
                idx == (CHOOSE i \in at : \A j \in at : i <= j) - 1
            IN  IF at # {} /\ idx > 0 THEN SubSeq(str, 1, idx) ELSE str
    IN  IF t = <<>> \/ t = NotAvailable THEN <<>>
        ELSE TrimSpace(Cut(Cut(t, "\n"), ","))
\* insights.go, lines 44-46: the location as it is
SameLocation(rawText) == rawText

\* the report of a batch: the fields both versions fill in the same way
Report(ls, stats, minPrice, maxPrice, Key(_), order) ==
    LET priced == Indices(ls, IsPriced)
        keys == {Key(ls[i].Location) : i \in 1..Len(ls)} \ {<<>>}
    IN  [TotalListings |-> Len(ls),
         AirbnbListings |-> Cardinality({i \in 1..Len(ls) : ls[i].Platform = "airbnb"}),
         AveragePrice |-> IF Len(priced) > 0 THEN round2(stats.total, Len(priced)) ELSE 0,
         MinPrice |-> minPrice,
         MaxPrice |-> maxPrice,
         MostExpensive |-> stats.most,
         TopRated |-> SubSeq(order, 1, IF Len(order) > TopN THEN TopN ELSE Len(order)),
         ListingsByLocation |->
             [key \in keys |->
                 Cardinality({i \in 1..Len(ls) : Key(ls[i].Location) = key})]]

\* the report both versions start from: every field zero, the map empty
EmptyReport ==
    [TotalListings |-> 0, AirbnbListings |-> 0, AveragePrice |-> 0, MinPrice |-> 0,
     MaxPrice |-> 0, MostExpensive |-> 0, TopRated |-> <<>>, ListingsByLocation |-> <<>>]

\* Generate of insights.go, lines 20-80; order is what sort.Slice made of the
\* rated listings; MostExpensive 0 is nil
Generate(ls, order) ==
    LET priced == Indices(ls, IsPriced)
        first == ls[priced[1]].Price
        stats == IF Len(priced) > 0
                 THEN PriceLoop(ls, priced, 1,
                                [total |-> 0, min |-> first, max |-> first, most |-> 0])
                 ELSE [total |-> 0, min |-> 0, max |-> 0, most |-> 0]
    IN  IF Len(ls) = 0 THEN EmptyReport
        ELSE Report(ls, stats, round2(stats.min, 1), round2(stats.max, 1),
                    SameLocation, order)

\* Generate of part_010 without the early return of lines 29-32 and the reset
\* of lines 76-78: MinPrice and MaxPrice are the running minPrice and maxPrice
\* (mutant)
GeneratePart010KeepsSentinel(ls, order) ==
    LET stats == PriceLoop(ls, Indices(ls, IsPriced), 1,
                           [total |-> 0, min |-> MaxFloat64, max |-> -MaxFloat64,
                            most |-> 0])
    IN  Report(ls, stats, stats.min, stats.max, normaliseLocation, order)

\* Generate of part_010, lines 24-90
GeneratePart010(ls, order) ==
    LET stats == PriceLoop(ls, Indices(ls, IsPriced), 1,
                           [total |-> 0, min |-> MaxFloat64, max |-> -MaxFloat64,
                            most |-> 0])
    IN  IF Len(ls) = 0 THEN EmptyReport
        ELSE Report(ls, stats,
                    IF stats.min = MaxFloat64 THEN 0 ELSE stats.min,
                    IF stats.max = -MaxFloat64 THEN 0 ELSE stats.max,
                    normaliseLocation, order)

InsightInit ==
    /\ listings = <<>>
    /\ report = [insights |-> Generate(<<>>, <<>>), part010 |-> GeneratePart010(<<>>, <<>>)]
    /\ arranged = <<>>
    /\ ipc = "collect"

\* One more listing with a price and a location joins the batch.
AddListing(p, loc) ==
    /\ ipc = "collect"
    /\ Len(listings) < MaxListings
    /\ listings' = Append(listings,
           [Platform |-> "airbnb", Price |-> p, Rating |-> 0, Location |-> loc])
    /\ UNCHANGED <<report, arranged, ipc>>
    /\ UNCHANGED nonInsightVars

\* One more listing with a rating joins the batch.
AddRated(r) ==
    /\ ipc = "collect"
    /\ Len(listings) < MaxRated
    /\ listings' = Append(listings,
           [Platform |-> "airbnb", Price |-> 0, Rating |-> r, Location |-> <<>>])
    /\ UNCHANGED <<report, arranged, ipc>>
    /\ UNCHANGED nonInsightVars

\* Generate with the rated listings sorted in place in the batch (mutant)
GenerateCallSortsBatch ==
    /\ ipc = "collect"
    /\ \E order \in SortOutcomes(listings, {i \in 1..Len(listings) : IsRated(listings[i])}) :
          /\ arranged' = order
          /\ report' = [insights |-> Generate(listings, order),
                        part010 |-> GeneratePart010(listings, order)]
          /\ listings' = [k \in 1..Len(order) |-> listings[order[k]]]
                            \o SelectSeq(listings, LAMBDA l : ~IsRated(l))
    /\ ipc' = "done"
    /\ UNCHANGED nonInsightVars

\* The batch is handed to InsightService.Generate: the rated listings are
\* copied (append, insights.go line 42, part_010 line 62) and the copy is
\* sorted; the batch itself is only read.
GenerateCall ==
    /\ ipc = "collect"
    /\ \E order \in SortOutcomes(listings, {i \in 1..Len(listings) : IsRated(listings[i])}) :
          /\ arranged' = order
          /\ report' = [insights |-> Generate(listings, order),
                        part010 |-> GeneratePart010(listings, order)]
    /\ ipc' = "done"
    /\ UNCHANGED listings
    /\ UNCHANGED nonInsightVars

\* Generate is called once more on the batch as the first call left it.
\* sort.Slice runs no goroutine and draws no random number: on the same slice
\* it makes the same arrangement.
GenerateAgain ==
    /\ ipc = "done"
    /\ LET rated == Indices(listings, IsRated)
           order == IF {arranged[k] : k \in 1..Len(arranged)} = {rated[k] : k \in 1..Len(rated)}
                       /\ \A k \in 1..(Len(arranged) - 1) :
                             ~(listings[arranged[k + 1]].Rating > listings[arranged[k]].Rating)
                    THEN arranged
                    ELSE CHOOSE o \in SortOutcomes(listings, {rated[k] : k \in 1..Len(rated)}) : TRUE
       IN  report' = [insights |-> Generate(listings, order),
                      part010 |-> GeneratePart010(listings, order)]
    /\ ipc' = "again"
    /\ UNCHANGED <<listings, arranged>>
    /\ UNCHANGED nonInsightVars

InsightNext ==
    \/ \E p \in Prices, loc \in Locations : AddListing(p, loc)
    \/ GenerateCall
    \/ GenerateAgain

TopRatedNext ==
    \/ \E r \in Ratings : AddRated(r)
    \/ GenerateCall
    \/ GenerateAgain

\* ================================================ Cleaner.parseLocation
\* parseLocation of insights_test.go, lines 347-403, and normaliseText, lines
\* 431-440.
UpperCase == <<"A", "B", "C", "D", "E", "F", "G", "H", "I", "J", "K", "L", "M", "N", "O", "P", "Q", "R", "S", "T", "U", "V", "W", "X", "Y", "Z">>
LowerCase == <<"a", "b", "c", "d", "e", "f", "g", "h", "i", "j", "k", "l", "m", "n", "o", "p", "q", "r", "s", "t", "u", "v", "w", "x", "y", "z">>
\* strings.ToLower
ToLower(str) ==
    [i \in 1..Len(str) |->
        IF \E k \in 1..Len(UpperCase) : UpperCase[k] = str[i]
        THEN LowerCase[CHOOSE k \in 1..Len(UpperCase) : UpperCase[k] = str[i]]
        ELSE str[i]]
\* strings.Contains
StringsContains(str, sub) == \E i \in 1..(Len(str) + 1) : HasAt(str, i, sub)

\* lines 349-359
badPrefixes ==
    << <<"C", "h", "e", "c", "k", " ", "o", "u", "t", " ", "h", "o", "m", "e", "s", " ", "i", "n", " ">>,
       <<"A", "v", "a", "i", "l", "a", "b", "l", "e", " ", "n", "e", "x", "t", " ", "m", "o", "n", "t", "h", " ", "i", "n", " ">>,
       <<"T", "h", "i", "n", "g", "s", " ", "t", "o", " ", "d", "o", " ", "i", "n", " ">>,
       <<"E", "x", "p", "l", "o", "r", "e", " ", "h", "o", "m", "e", "s", " ", "i", "n", " ">>,
       <<"S", "t", "a", "y", " ", "n", "e", "a", "r", " ">>,
       <<"S", "t", "a", "y", " ", "i", "n", " ">>,
       <<"P", "o", "p", "u", "l", "a", "r", " ", "h", "o", "m", "e", "s", " ", "i", "n", " ">>,
       <<"H", "o", "m", "e", "s", " ", "i", "n", " ">>,
       <<"G", "u", "e", "s", "t", "s", " ", "a", "l", "s", "o", " ", "c", "h", "e", "c", "k", "e", "d", " ", "o", "u", "t", " ">> >>
\* lines 360-362
junkPhrases ==
    { <<"w", "h", "e", "r", "e", " ", "y", "o", "u", "'", "l", "l", " ", "b", "e">>,
      <<"a", "d", "d", " ", "d", "a", "t", "e", "s">>,
      <<"i", "n", "s", "p", "i", "r", "a", "t", "i", "o", "n">> }
\* lines 363-371
isJunk(str) == \E j \in junkPhrases : StringsContains(ToLower(str), j)
\* line 375: strings.ToLower(p) of each prefix
lowerPrefixes == [k \in 1..Len(badPrefixes) |-> ToLower(badPrefixes[k])]
\* lines 372-380: the first prefix of the list that str begins with is cut off
stripPrefix(str) ==
    LET lower == ToLower(str)
        fits == {k \in 1..Len(badPrefixes) : HasAt(lower, 1, lowerPrefixes[k])}
        p == badPrefixes[CHOOSE k \in fits : \A j \in fits : k <= j]
    IN  IF fits = {} THEN str
        ELSE TrimSpace(SubSeq(str, Len(p) + 1, Len(str)))

\* strings.FieldsFunc(s, unicode.IsSpace) joined by " ": every run of white
\* space inside str becomes one space (str is trimmed)
JoinFields(str) ==
    LET keep == SelectSeq([i \in 1..Len(str) |-> i],
                          LAMBDA i : ~IsSpace(str[i]) \/ i = 1 \/ ~IsSpace(str[i - 1]))
    IN  [k \in 1..Len(keep) |-> IF IsSpace(str[keep[k]]) THEN " " ELSE str[keep[k]]]
\* normaliseText, lines 431-440
normaliseText(str) ==
    LET t == TrimSpace(str)
    IN  IF t = <<>> \/ t = NotAvailable THEN <<>> ELSE JoinFields(t)

\* line 387: len(loc) < 80
LocationCeiling == 80
\* line 393: the longest place {3,60} captures
PlaceMax == 60
PlaceMin == 3
IsPlaceChar(c) == c # "\n" /\ c # "$" /\ ~IsDigit(c)

\* the regular expression of line 393 at position i:
\* \d+\s*nights?\s+in\s+([^\n$\d]{3,60}); the white space before the place is
\* given back to the place as far as the place needs it
nightsInRegexp(str, i) ==
    LET Place(e, starts) ==
            LET from == CHOOSE k \in starts : \A j \in starts : j <= k
                upto == IF e - from > PlaceMax THEN from + PlaceMax ELSE e
            IN  IF starts # {}
                THEN Match(SubSeq(str, from, upto - 1), <<>>, upto)
                ELSE NoMatch
        Starts(a, b, e) == {k \in (a + 3)..b :
                               /\ \A j \in k..(b - 1) : IsPlaceChar(str[j])
                               /\ e - k >= PlaceMin}
        Run(a, b, e) == Place(e, Starts(a, b, e))
        In(a, b) == IF b > a + 2 THEN Run(a, b, RunEnd(str, b, IsPlaceChar)) ELSE NoMatch
        Gap(m, a) ==
            IF a > m.next /\ HasAt(str, a, <<"i", "n">>)
            THEN In(a, RunEnd(str, a + 2, IsSpace))
            ELSE NoMatch
        Nights(m) == IF m.ok THEN Gap(m, RunEnd(str, m.next, IsSpace)) ELSE NoMatch
    IN  IF i <= Len(str) THEN Nights(nightsRegexp(str, i)) ELSE NoMatch

Unknown == <<"U", "n", "k", "n", "o", "w", "n">>
\* parseLocation, lines 382-402
parseLocation(loc0, rawPageText) ==
    LET Extracted(loc, m, extracted) ==
            IF m.ok /\ extracted # <<>> /\ ~isJunk(extracted)
            THEN normaliseText(extracted)
            ELSE normaliseText(loc)
        Found(loc, m) == Extracted(loc, m, TrimSpace(m.g1))
        Checked(loc) ==
            IF /\ loc # <<>> /\ loc # NotAvailable /\ loc # Unknown
               /\ ~StringsContains(loc, <<"\n">>)
               /\ Len(loc) < LocationCeiling
               /\ ~isJunk(loc)
            THEN normaliseText(loc)
            ELSE IF rawPageText # <<>>
                 THEN Found(loc, Leftmost(rawPageText, 1, nightsInRegexp))
                 ELSE normaliseText(loc)
    IN  Checked(stripPrefix(TrimSpace(loc0)))

\* a run of forty letters: two of them reach the ceiling
LongName == [i \in 1..(LocationCeiling \div 2) |-> "x"]
\* the pieces location texts are written from
LocationPieces ==
    { <<"B", "a", "l", "i">>,
      <<"H", "o", "m", "e", "s", " ", "i", "n", " ">>,
      <<"A", "d", "d", " ", "d", "a", "t", "e", "s">>,
      <<"\n">>,
      <<" ">>,
      <<",", " ">>,
      <<"N", "/", "A">>,
      LongName }
\* the texts RawPrice holds
PageTexts ==
    { <<"$", "6", "6", " ", "f", "o", "r", " ", "2", " ", "n", "i", "g", "h", "t", "s">>,
      <<"2", " ", "n", "i", "g", "h", "t", "s", " ", "i", "n", " ", "B", "a", "l", "i", " ", "$", "6", "6">>,
      <<"1", " ", "n", "i", "g", "h", "t", " ", "i", "n", " ", " ", "a", "b">>,
      <<"2", " ", "n", "i", "g", "h", "t", "s", " ", "i", "n", " ", "A", "d", "d", " ", "d", "a", "t", "e", "s">>,
      <<"3", " ", "n", "i", "g", "h", "t", "s", " ", "i", "n", " ", "a", "b">> }

LocationInit ==
    /\ rawLocation = <<>>
    /\ locParts = 0
    /\ pageText = <<>>
    /\ location = <<>>
    /\ lpc = "write"

\* The scraper writes one more piece into Location.
LocationWrite(piece) ==
    /\ lpc = "write"
    /\ locParts < MaxLocParts
    /\ rawLocation' = rawLocation \o piece
    /\ locParts' = locParts + 1
    /\ UNCHANGED <<pageText, location, lpc>>
    /\ UNCHANGED nonLocationVars

\* The scraper writes RawPrice.
PageTextWrite(text) ==
    /\ lpc = "write"
    /\ pageText = <<>>
    /\ pageText' = text
    /\ UNCHANGED <<rawLocation, locParts, location, lpc>>
    /\ UNCHANGED nonLocationVars

\* Clean, line 279: c.parseLocation(r.Location, r.RawPrice)
ParseLocationCall ==
    /\ lpc = "write"
    /\ location' = parseLocation(rawLocation, pageText)
    /\ lpc' = "parsed"
    /\ UNCHANGED <<rawLocation, locParts, pageText>>
    /\ UNCHANGED nonLocationVars

LocationNext ==
    \/ \E piece \in LocationPieces : LocationWrite(piece)
    \/ \E text \in PageTexts : PageTextWrite(text)
    \/ ParseLocationCall

\* ================================================= Cleaner.Clean (loop)
\* Clean, lines 48-57: the Listing built from raw listing r at position i:
\* Price by parsePrice, Rating by parseRating, Location by normaliseText
\* (cleaner.go) and by parseLocation (insights_test.go, lines 275-284); src is
\* history: the position of the raw listing in the batch
NewListing(r, url, i) ==
    [URL |-> url,
     Price |-> [cleaner |-> parsePrice(r.RawPrice),
                strategies |-> parsePriceByStrategy(r.RawPrice)],
     Rating |-> parseRating(r.Rating),
     Location |-> [cleaner |-> normaliseText(r.Location),
                   strategies |-> parseLocation(r.Location, r.RawPrice)],
     src |-> i]

\* Clean, lines 36-59 where a listing without a usable price or rating is
\* skipped (mutant)
CleanStepDropsUnparsed(acc, r, i) ==
    LET url == TrimSpace(r.URL) IN
    IF url = <<>> THEN acc
    ELSE IF url \in acc.seen THEN acc
    ELSE IF parsePrice(r.RawPrice).num = 0 \/ parseRating(r.Rating) = 0 THEN acc
    ELSE [seen |-> acc.seen \cup {url},
          result |-> Append(acc.result, NewListing(r, url, i))]

\* Clean, lines 36-59 with the seen map keyed by the untrimmed r.URL (mutant)
CleanStepRawKey(acc, r, i) ==
    LET url == TrimSpace(r.URL) IN
    IF url = <<>> THEN acc
    ELSE IF r.URL \in acc.seen THEN acc
    ELSE [seen |-> acc.seen \cup {r.URL},
          result |-> Append(acc.result, NewListing(r, url, i))]

\* Clean, lines 36-59 without the empty-URL test of lines 38-40 (mutant)
CleanStepKeepsEmpty(acc, r, i) ==
    LET url == TrimSpace(r.URL) IN
    IF url \in acc.seen THEN acc
    ELSE [seen |-> acc.seen \cup {url},
          result |-> Append(acc.result, NewListing(r, url, i))]

\* Clean, lines 36-59 where a repeated URL replaces the record kept so far
\* (mutant)
CleanStepKeepsLast(acc, r, i) ==
    LET url == TrimSpace(r.URL) IN
    IF url = <<>> THEN acc
    ELSE [seen |-> acc.seen \cup {url},
          result |-> Append(SelectSeq(acc.result, LAMBDA l : l.URL # url),
                            NewListing(r, url, i))]

\* Clean, lines 36-59: one round of the loop over raw listing r at position i
CleanStep(acc, r, i) ==
    LET url == TrimSpace(r.URL) IN
    IF url = <<>> THEN acc
    ELSE IF url \in acc.seen THEN acc
    ELSE [seen |-> acc.seen \cup {url},
          result |-> Append(acc.result, NewListing(r, url, i))]

RECURSIVE CleanLoop(_, _, _)
CleanLoop(batch, i, acc) ==
    IF i > Len(batch) THEN acc
    ELSE CleanLoop(batch, i + 1, CleanStep(acc, batch[i], i))

\* Clean, lines 31-65
Clean(batch) == CleanLoop(batch, 1, [seen |-> {}, result |-> <<>>]).result

CleanInit ==
    /\ raw = <<>>
    /\ cleaned = <<>>
    /\ cpc = "collect"

\* the texts of a raw listing: as the scraper writes them for a listing page,
\* and malformed ones
PlainTexts ==
    [RawPrice |-> <<"$", "6", "6", " ", "f", "o", "r", " ", "2", " ", "n", "i", "g", "h", "t", "s">>,
     Rating |-> <<"4", ".", "5">>,
     Location |-> <<"B", "a", "l", "i">>]
\* a listing none of whose texts was found on the page
NoTexts == [RawPrice |-> <<>>, Rating |-> <<>>, Location |-> <<>>]
RawTexts ==
    { PlainTexts,
      [RawPrice |-> <<"$", " ", "f", "o", "r", " ", "0", " ", "n", "i", "g", "h", "t", "s">>,
       Rating |-> <<"6", ".", "5">>,
       Location |-> <<"A", "d", "d", " ", "d", "a", "t", "e", "s", "\n">>],
      [RawPrice |-> <<>>,
       Rating |-> <<"5", ".", "9", " ", ".">>,
       Location |-> NotAvailable] }
\* URLs of the batches whose texts vary
FewURLs == {<<>>, <<"a">>, <<" ", "a">>, <<"b">>}

\* The fetch stage adds one RawListing to the batch.
Collect(u, texts) ==
    /\ cpc = "collect"
    /\ Len(raw) < MaxBatch
    /\ raw' = Append(raw, [URL |-> u, RawPrice |-> texts.RawPrice,
                           Rating |-> texts.Rating, Location |-> texts.Location])
    /\ UNCHANGED <<cleaned, cpc>>
    /\ UNCHANGED nonCleanVars

\* The batch is handed to Cleaner.Clean.
CleanCall ==
    /\ cpc = "collect"
    /\ cleaned' = Clean(raw)
    /\ cpc' = "cleaned"
    /\ UNCHANGED raw
    /\ UNCHANGED nonCleanVars

CleanNext ==
    \/ \E u \in RawURLs : Collect(u, NoTexts)
    \/ CleanCall

\* batches of listings with any of the texts
CleanTextsNext ==
    \/ \E u \in FewURLs, texts \in RawTexts : Collect(u, texts)
    \/ CleanCall

\* =============================================== Scraper.enrichListings
\* airbnb.go: the scraping goroutine builds the listings of a section from
\* the cards (lines 756-772), hands them to enrichListings (lines 1061-1090),
\* which submits one pool task per listing and waits, and then reads and
\* appends them (lines 784-801). A listing is known by its position in
\* sectionListings; URL 0 is the empty URL, other URLs are numbered as
\* visitedURL.Add lets them through, each once.
EnrichInit ==
    /\ esection = <<>>
    /\ epc = "cards"
    /\ eidx = 1
    /\ etask = [t \in Tasks |-> 0]
    /\ eall = <<>>

\* lines 758-772: a card whose URL visitedURL.Add has not seen becomes a
\* RawListing of the section
EnrichCard(blank) ==
    /\ epc = "cards"
    /\ Len(esection) < MaxTasks
    /\ blank => \A i \in 1..Len(esection) : esection[i].URL # 0
    /\ LET named == Cardinality({i \in 1..Len(esection) : esection[i].URL # 0})
       IN  esection' = Append(esection, [URL |-> IF blank THEN 0 ELSE named + 1])
    /\ UNCHANGED <<epc, eidx, etask, eall>>
    /\ UNCHANGED <<poolVars, nonEnrichVars>>

\* lines 774-782: a section without listings is passed over, any other goes
\* to enrichListings
EnrichCall ==
    /\ epc = "cards"
    /\ epc' = IF Len(esection) = 0 THEN "done" ELSE "loop"
    /\ eidx' = 1
    /\ UNCHANGED <<esection, etask, eall>>
    /\ UNCHANGED <<poolVars, nonEnrichVars>>

\* enrichListings, lines 1062-1066: a listing with the empty URL gets no task
EnrichSkip ==
    /\ epc = "loop" /\ mpc = "idle"
    /\ eidx <= Len(esection)
    /\ esection[eidx].URL = 0
    /\ eidx' = eidx + 1
    /\ UNCHANGED <<esection, epc, etask, eall>>
    /\ UNCHANGED <<poolVars, nonEnrichVars>>

\* enrichListings, lines 1067-1087: s.pool.Submit of the closure over l; the
\* caller is in Submit (line 30 done) until mpc is "idle" again
EnrichSubmit ==
    /\ epc = "loop" /\ mpc = "idle"
    /\ eidx <= Len(esection)
    /\ esection[eidx].URL # 0
    /\ nsub < MaxTasks
    /\ nsub' = nsub + 1
    /\ wg' = wg + 1
    /\ mpc' = "submit_sem"
    /\ etask' = [etask EXCEPT ![nsub + 1] = eidx]
    /\ eidx' = eidx + 1
    /\ UNCHANGED <<esection, epc, eall>>
    /\ UNCHANGED <<maxWorkers, rateLimitMs, now, sem, poolMu, lastRequest,
                   tpc, twake, tstart, waitFor, waited>>
    /\ UNCHANGED nonEnrichVars

\* enrichListings without line 1089: it returns when the loop is over (mutant)
EnrichWaitMissing ==
    /\ epc = "loop" /\ mpc = "idle"
    /\ eidx > Len(esection)
    /\ epc' = "read"
    /\ eidx' = 1
    /\ UNCHANGED <<esection, etask, eall>>
    /\ UNCHANGED <<poolVars, nonEnrichVars>>

\* enrichListings, line 1089: s.pool.Wait(); the caller is in Wait until mpc
\* is "idle" again, and goes on at line 784 then
EnrichWait ==
    /\ epc = "loop" /\ mpc = "idle"
    /\ eidx > Len(esection)
    /\ mpc' = "wait"
    /\ waitFor' = 1..nsub
    /\ epc' = "read"
    /\ eidx' = 1
    /\ UNCHANGED <<esection, etask, eall>>
    /\ UNCHANGED <<maxWorkers, rateLimitMs, now, sem, wg, poolMu, lastRequest, nsub,
                   tpc, twake, tstart, waited>>
    /\ UNCHANGED nonEnrichVars

\* lines 784-796: the fields of one listing are read for the log line
EnrichRead ==
    /\ epc = "read" /\ mpc = "idle"
    /\ eidx <= Len(esection)
    /\ eidx' = eidx + 1
    /\ UNCHANGED <<esection, epc, etask, eall>>
    /\ UNCHANGED <<poolVars, nonEnrichVars>>

\* lines 798-801: s.listings = append(s.listings, sectionListings...)
EnrichAppend ==
    /\ epc = "read" /\ mpc = "idle"
    /\ eidx > Len(esection)
    /\ eall' = eall \o esection
    /\ epc' = "done"
    /\ UNCHANGED <<esection, eidx, etask>>
    /\ UNCHANGED <<poolVars, nonEnrichVars>>

\* the scraping goroutine and the goroutines of the pool
EnrichNext ==
    \/ \E blank \in BOOLEAN : EnrichCard(blank)
    \/ EnrichCall
    \/ EnrichSkip
    \/ EnrichSubmit
    \/ EnrichWait
    \/ EnrichRead
    \/ EnrichAppend
    \/ Tick
    \/ SubmitSend
    \/ SubmitGo
    \/ \E t \in Tasks : GateLock(t)
    \/ \E t \in Tasks : GateRead(t)
    \/ \E t \in Tasks : GateWake(t)
    \/ \E t \in Tasks : GateStamp(t)
    \/ \E t \in Tasks : GateUnlock(t)
    \/ \E t \in Tasks : JobStart(t)
    \/ \E t \in Tasks : JobEnd(t)
    \/ \E t \in Tasks : Release(t)
    \/ \E t \in Tasks : WgDone(t)
    \/ WaitReturn

ParseIdle == PriceInit /\ RatingInit /\ InsightInit /\ LocationInit /\ EnrichInit

\* ====================================================== specifications
\* One specification per component; the other components stay as constructed.
InitURLSet == URLInit /\ PoolIdle /\ RetryIdle /\ CleanInit /\ ParseIdle
NextURLSet == URLNext
SpecURLSet == InitURLSet /\ [][NextURLSet]_vars

InitPool == PoolInit /\ URLInit /\ RetryIdle /\ CleanInit /\ ParseIdle
NextPool == PoolNext
SpecPool == InitPool /\ [][NextPool]_vars

\* The pool under fair scheduling: the clock advances, a goroutine that can
\* take its next step takes it (every job() returns), and a caller blocked
\* in the send of line 31, in go func of line 33 or in wg.Wait of line 44
\* goes on once it can. Whether Submit or Wait is called at all is up to the
\* caller.
PoolFairness ==
    /\ WF_vars(Tick)
    /\ WF_vars(SubmitSend)
    /\ WF_vars(SubmitGo)
    /\ WF_vars(WaitReturn)
    /\ \A t \in Tasks :
          /\ WF_vars(GateLock(t))
          /\ WF_vars(GateRead(t))
          /\ WF_vars(GateWake(t))
          /\ WF_vars(GateStamp(t))
          /\ WF_vars(GateUnlock(t))
          /\ WF_vars(JobStart(t))
          /\ WF_vars(JobEnd(t))
          /\ WF_vars(Release(t))
          /\ WF_vars(WgDone(t))
SpecPoolFair == InitPool /\ [][NextPool]_vars /\ PoolFairness

InitEnrich == PoolInit /\ URLInit /\ RetryIdle /\ CleanInit /\ ParseIdle
NextEnrich == EnrichNext
SpecEnrich == InitEnrich /\ [][NextEnrich]_vars

InitRetry == RetryInit /\ URLInit /\ PoolIdle /\ CleanInit /\ ParseIdle
NextRetry == RetryNext
SpecRetry == InitRetry /\ [][NextRetry]_vars

InitClean == CleanInit /\ URLInit /\ PoolIdle /\ RetryIdle /\ ParseIdle
NextClean == CleanNext
SpecClean == InitClean /\ [][NextClean]_vars

NextCleanTexts == CleanTextsNext
SpecCleanTexts == InitClean /\ [][NextCleanTexts]_vars

InitPrice == ParseIdle /\ URLInit /\ PoolIdle /\ RetryIdle /\ CleanInit
NextPrice == PriceNext
SpecPrice == InitPrice /\ [][NextPrice]_vars

InitRating == ParseIdle /\ URLInit /\ PoolIdle /\ RetryIdle /\ CleanInit
NextRating == RatingNext
SpecRating == InitRating /\ [][NextRating]_vars

InitInsight == ParseIdle /\ URLInit /\ PoolIdle /\ RetryIdle /\ CleanInit
NextInsight == InsightNext
SpecInsight == InitInsight /\ [][NextInsight]_vars

InitLocation == ParseIdle /\ URLInit /\ PoolIdle /\ RetryIdle /\ CleanInit
NextLocation == LocationNext
SpecLocation == InitLocation /\ [][NextLocation]_vars

NextTopRated == TopRatedNext
SpecTopRated == InitInsight /\ [][NextTopRated]_vars

\* -------------------------------------------------------- WorkerPool claims
Running == {t \in Tasks : tpc[t] = "job_run"}
BodyFinished(t) == tpc[t] \in {"release", "wg_done", "finished"}
\* tasks whose goroutine exists and has not yet given its slot back
HoldsSlot(t) == tpc[t] \in {"gate_lock", "gate_read", "gate_sleep", "gate_stamp",
                            "gate_unlock", "job_start", "job_run", "release"}
Abs(x) == IF x < 0 THEN -x ELSE x

\* C3: in every reachable state the number of tasks whose body is running
\* (job() entered and not yet returned) is at most maxWorkers.
C3_RunningBounded == Cardinality(Running) <= maxWorkers

\* Two bodies run at once in a pool of two while a third Submit is blocked.
C3_Witness ==
    /\ maxWorkers = 2 /\ Cardinality(Running) = 2
    /\ mpc = "submit_sem" /\ nsub = 3

\* C4 (as claimed): the ticks at which any two task bodies start differ by at
\* least rateLimitMs.
C4_BodyStartsSpaced ==
    \A t1, t2 \in Tasks :
        (t1 # t2 /\ tstart[t1] >= 0 /\ tstart[t2] >= 0)
            => Abs(tstart[t1] - tstart[t2]) >= rateLimitMs

\* What enforceRateLimit does keep apart: successive values of lastRequest.
GateStampsSpaced ==
    [][lastRequest' # lastRequest => lastRequest' >= lastRequest + rateLimitMs]_vars

\* C5: when Wait has returned, every task whose Submit had returned before
\* that Wait was called has finished its body (none is pending or running).
C5_WaitCoversSubmitted == \A t \in waited : BodyFinished(t)

\* A Wait that was called while tasks were still unfinished has returned.
C5_Witness == Cardinality(waited) >= 2 /\ mpc = "idle"

\* C6: Submit returns only with a slot reserved for its task: the send of
\* line 31 cannot complete while maxWorkers tasks hold slots, it can as soon
\* as a slot is free, and every task whose Submit got past line 31 and that
\* has not yet given its slot back is counted in the semaphore.
C6_SlotReserved ==
    /\ sem = Cardinality({t \in Tasks : HoldsSlot(t)}) + (IF mpc = "submit_go" THEN 1 ELSE 0)
    /\ sem <= maxWorkers
    /\ (mpc = "submit_sem" /\ sem < maxWorkers) => ENABLED SubmitSend
C6_SubmitStep ==
    /\ (mpc = "submit_sem" /\ sem >= maxWorkers) => mpc' = "submit_sem"
    /\ (mpc = "submit_sem" /\ mpc' # "submit_sem") => (sem < maxWorkers /\ sem' = sem + 1)
C6_SubmitBackpressure == [](C6_SlotReserved) /\ [][C6_SubmitStep]_vars

\* A Submit call is blocked on the full semaphore behind maxWorkers tasks.
C6_Witness ==
    /\ maxWorkers >= 1
    /\ mpc = "submit_sem" /\ sem = maxWorkers
    /\ Cardinality({t \in Tasks : HoldsSlot(t)}) = maxWorkers

\* ------------------------------------------------------------ URLSet claims
InAdd(p, k) == upc[p] \in {"add_lock", "add_check", "add_store", "add_unlock"} /\ ukey[p] = k

\* C1: of any number of concurrent Add calls with one key, under every
\* interleaving, at most one returns true, and once none of them is still
\* running exactly one has returned true and all the others false.
C1_AddExactlyOneTrue ==
    \A k \in Keys :
        /\ addTrue[k] <= 1
        /\ ((addTrue[k] + addFalse[k] >= 1 /\ \A p \in Callers : ~InAdd(p, k))
              => addTrue[k] = 1)

\* Three Add calls with one key were in flight together and all have returned.
C1_Witness ==
    \E k \in Keys :
        /\ addTrue[k] = 1 /\ addFalse[k] >= 2
        /\ \A p \in Callers : ~InAdd(p, k)

\* C2: Add(k) returns true iff k was not present before the call and leaves k
\* present; Contains(k) answers presence; Size() is the number of distinct
\* keys added so far (each call judged at the point where it holds the lock
\* and has computed its result).
C2_AddContainsSize ==
    /\ \A p \in Callers :
          /\ upc[p] = "add_unlock" =>
                (uret[p] = (ukey[p] \notin addedKeys) /\ ukey[p] \in seen)
          /\ upc[p] = "con_unlock" => uret[p] = (ukey[p] \in addedKeys)
          /\ upc[p] = "size_unlock" => uret[p] = Cardinality(addedKeys)
    /\ (\A p \in Callers : upc[p] \notin {"add_store", "add_unlock"}) => seen = addedKeys

\* One key was added twice (true, then false) and a Size call is returning 1.
C2_Witness ==
    \E p \in Callers, k \in Keys :
        /\ upc[p] = "size_unlock" /\ uret[p] = 1
        /\ addTrue[k] = 1 /\ addFalse[k] = 1
        /\ addedKeys = {k}

\* ------------------------------------------------------- RetryConfig claims
AllFailed == \A i \in 1..Len(routs) : routs[i] # NoErr
FirstSuccess == IF AllFailed THEN 0
                ELSE CHOOSE i \in 1..Len(routs) :
                         routs[i] = NoErr /\ \A j \in 1..(i - 1) : routs[j] # NoErr

\* C7: with MaxAttempts = n >= 1 and an operation that fails on every call,
\* Do has invoked the operation exactly n times when it returns, never more
\* while it runs, and returns a non-nil error.
C7_AlwaysFailingCalledMaxTimes ==
    (rMax >= 1 /\ AllFailed) =>
        /\ Len(routs) <= rMax
        /\ rpc = "done" => (Len(routs) = rMax /\ ~result.isNil)

\* Three attempts, all failed, and Do has returned its error.
C7_Witness ==
    /\ rpc = "done" /\ rMax = 3 /\ AllFailed /\ Len(routs) = 3 /\ ~result.isNil

\* C8: if the operation first succeeds on its k-th call (k <= MaxAttempts), Do
\* returns nil having invoked it exactly k times: no call follows the first
\* success, and Do returns nil only after a call that succeeded.
C8_StopsAtFirstSuccess ==
    /\ ~AllFailed => (Len(routs) = FirstSuccess /\ rpc = "done" /\ result.isNil)
    /\ (rpc = "done" /\ result.isNil) => ~AllFailed

\* Two failures, then a success: three calls and a nil result.
C8_Witness ==
    /\ rpc = "done" /\ result.isNil /\ Len(routs) = 3
    /\ routs[1] # NoErr /\ routs[2] # NoErr /\ routs[3] = NoErr

\* C9: when all MaxAttempts >= 1 attempts fail, the error Do returns wraps the
\* error of the last attempt and carries the operation name and the attempt
\* count.
C9_WrapsLastError ==
    (rpc = "done" /\ rMax >= 1 /\ ~result.isNil) =>
        /\ Len(routs) = rMax
        /\ result.wraps = routs[Len(routs)]
        /\ result.wraps # NoErr
        /\ result.name = rName
        /\ result.attempts = rMax

\* The attempts failed with different errors and the last one is wrapped.
C9_Witness ==
    /\ rpc = "done" /\ ~result.isNil /\ rMax = 2
    /\ routs = <<"e1", "e2">> /\ result.wraps = "e2" /\ result.name = "insert"

\* ----------------------------------------------------------- Cleaner claims
\* C10: the records Clean returns have pairwise distinct URLs, URLs being
\* compared after trimming surrounding white space: every non-empty trimmed
\* URL of the input is the URL of exactly one clean record.
C10_CleanURLsDistinct ==
    cpc = "cleaned" =>
        /\ \A i, j \in 1..Len(cleaned) : i # j => cleaned[i].URL # cleaned[j].URL
        /\ \A k \in 1..Len(raw) :
              TrimSpace(raw[k].URL) # <<>> =>
                  Cardinality({i \in 1..Len(cleaned) :
                                   cleaned[i].URL = TrimSpace(raw[k].URL)}) = 1

\* Two raw listings whose URLs differ only in surrounding white space, and a
\* third with another URL, were cleaned into two records.
C10_Witness ==
    /\ cpc = "cleaned" /\ Len(raw) = 3 /\ Len(cleaned) = 2
    /\ raw[1].URL = <<"a">> /\ raw[2].URL = <<"a", "a">> /\ raw[3].URL = <<" ", "a">>
    /\ cleaned[1].URL = <<"a">> /\ cleaned[2].URL = <<"a", "a">>

\* the URLs of a list of listings, in order
URLsOf(list) == [i \in 1..Len(list) |-> list[i].URL]
\* a batch without the raw listings whose URL is empty after trimming
WithoutBlankURLs(batch) == SelectSeq(batch, LAMBDA r : TrimSpace(r.URL) # <<>>)

\* C11: a raw listing whose URL is empty after trimming white space is the
\* source of no clean record (and no clean record has an empty URL), and the
\* batch without such listings is cleaned into the same URLs in the same
\* order: dropping them changes nothing for the other listings.
C11_BlankURLDropped ==
    cpc = "cleaned" =>
        /\ \A i \in 1..Len(cleaned) :
              /\ cleaned[i].URL # <<>>
              /\ TrimSpace(raw[cleaned[i].src].URL) # <<>>
        /\ URLsOf(cleaned) = URLsOf(Clean(WithoutBlankURLs(raw)))

\* A blank URL between two listings with the same URL: one record is kept.
C11_Witness ==
    /\ cpc = "cleaned" /\ Len(raw) = 3 /\ Len(cleaned) = 1
    /\ raw[1].URL = <<"a">> /\ raw[2].URL = <<" ", " ">> /\ raw[3].URL = <<"a", " ">>
    /\ cleaned[1].src = 1

\* C12: the clean records are a subsequence of the batch: their sources are
\* strictly increasing positions of the batch, each carries the trimmed URL of
\* its source, and its source is the first raw listing with that trimmed URL.
C12_OrderPreservingFirstKept ==
    cpc = "cleaned" =>
        /\ \A i \in 1..Len(cleaned) :
              /\ cleaned[i].src \in 1..Len(raw)
              /\ cleaned[i].URL = TrimSpace(raw[cleaned[i].src].URL)
              /\ \A k \in 1..(cleaned[i].src - 1) :
                    TrimSpace(raw[k].URL) # cleaned[i].URL
        /\ \A i, j \in 1..Len(cleaned) : i < j => cleaned[i].src < cleaned[j].src

\* The second URL of the batch comes back at the end: the records kept are the
\* first and the second raw listing, in that order.
C12_Witness ==
    /\ cpc = "cleaned" /\ Len(raw) = 3 /\ Len(cleaned) = 2
    /\ raw[1].URL = <<"a", "a">> /\ raw[2].URL = <<"a">> /\ raw[3].URL = <<" ", "a">>
    /\ cleaned[1].src = 1 /\ cleaned[2].src = 2

\* ------------------------------------------------ parsePrice, parseRating claims
\* positions of the price text where "$X" is followed by "for N night(s)"
TotalPairs ==
    {k \in 1..(Len(priceParts) - 1) :
        priceParts[k].kind = "amount" /\ priceParts[k + 1].kind = "for"}
\* the price p is X / N rounded to the cent for one of those positions
IsRoundedTotal(p) ==
    \E k \in TotalPairs :
        p.num = RoundToCent(priceParts[k].n, priceParts[k + 1].n) * p.den

\* C13 (as claimed): for a price text that contains "$X for N nights", N >= 1,
\* parsePrice returns X / N rounded to 2 decimal places, whatever per-night
\* label or other dollar amounts the text also holds.
C13_TotalForNightsRounded ==
    (ppc = "parsed" /\ TotalPairs # {}) =>
        IsRoundedTotal(price.cleaner) /\ IsRoundedTotal(price.strategies)

\* What holds of the version of insights_test.go, lines 299-343, alone.
TotalForNightsRoundedByStrategy ==
    (ppc = "parsed" /\ TotalPairs # {}) => IsRoundedTotal(price.strategies)

\* the amounts of a price text made of two or more amounts and nothing else
BareAmounts ==
    IF Len(priceParts) >= 2 /\ \A k \in 1..Len(priceParts) : priceParts[k].kind = "amount"
    THEN {priceParts[k].n : k \in 1..Len(priceParts)} ELSE {}
\* the price p is the least of those amounts under the sanity ceiling
IsSmallestAmount(p) ==
    LET under == {a \in BareAmounts : a > 0 /\ a < PriceCeiling}
    IN  under # {} => (p.den = 1 /\ p.num \in under /\ \A a \in under : p.num <= a)

\* C14 (as claimed): for a price text of several dollar amounts without
\* "for N nights" and without a per-night label, parsePrice returns the least
\* positive amount under the sanity ceiling, in whatever order they stand.
C14_SmallestAmountAnyOrder ==
    ppc = "parsed" => IsSmallestAmount(price.cleaner) /\ IsSmallestAmount(price.strategies)

\* What holds of the version of cleaner.go, lines 70-119, alone.
SmallestAmountByCleaner == ppc = "parsed" => IsSmallestAmount(price.cleaner)

\* the rating text is a decimal numeral (\d+ or \d+\.\d+) greater than 5
NumeralAboveFive(str) ==
    LET whole == RunEnd(str, 1, IsDigit)
        numeral == /\ whole > 1
                   /\ \/ whole = Len(str) + 1
                      \/ /\ str[whole] = "." /\ whole < Len(str)
                         /\ RunEnd(str, whole + 1, IsDigit) = Len(str) + 1
    IN  /\ numeral
        /\ \/ Atoi(SubSeq(str, 1, whole - 1)) > 5
           \/ /\ Atoi(SubSeq(str, 1, whole - 1)) = 5
              /\ \E k \in (whole + 1)..Len(str) : str[k] # "0"

\* C15 (as claimed): parseRating returns a value in [0, 5], and 0 for a rating
\* text whose number is above 5 ("6.0", "6.5", "15.5").
C15_OutOfRangeRatingRejected ==
    gpc = "parsed" =>
        /\ rating \in 0..500
        /\ NumeralAboveFive(rawRating) => rating = 0

\* What both versions of parsePrice keep: the price is not negative.
PriceNotNegative ==
    ppc = "parsed" =>
        \A version \in {"cleaner", "strategies"} :
            price[version].num >= 0 /\ price[version].den > 0

\* What parseRating does keep: its result is between 0 and 5.
RatingInRange == gpc = "parsed" => rating \in 0..500

\* -------------------------------------------------- InsightService claims
PricedSet == {i \in 1..Len(listings) : listings[i].Price > 0}
RatedSet == {i \in 1..Len(listings) : listings[i].Rating > 0}
RECURSIVE Sum(_, _)
Sum(f, S) == IF S = {} THEN 0
             ELSE LET x == CHOOSE x \in S : TRUE IN f[x] + Sum(f, S \ {x})
\* the location cut at its first comma or newline, without surrounding space
Canonical(loc) ==
    LET t == TrimSpace(loc)
        cuts == {i \in 1..Len(t) : t[i] \in {",", "\n"}}
    IN  IF cuts = {} THEN t
        ELSE TrimSpace(SubSeq(t, 1, (CHOOSE i \in cuts : \A j \in cuts : i <= j) - 1))

\* the price statistics of report rep are those of the listings with Price > 0
PriceStatsOverPriced(rep) ==
    IF PricedSet = {}
    THEN rep.AveragePrice = 0 /\ rep.MinPrice = 0 /\ rep.MaxPrice = 0
         /\ rep.MostExpensive = 0
    ELSE /\ \E i \in PricedSet : listings[i].Price = rep.MinPrice
         /\ \E i \in PricedSet : listings[i].Price = rep.MaxPrice
         /\ \A i \in PricedSet :
               rep.MinPrice <= listings[i].Price /\ listings[i].Price <= rep.MaxPrice
         \* the average is the mean of those prices to within half a cent
         /\ LET total == Sum([i \in PricedSet |-> listings[i].Price], PricedSet)
                n == Cardinality(PricedSet)
            IN  2 * Abs(rep.AveragePrice * n - total) <= 10 * n

\* C16 (as claimed): AveragePrice, MinPrice and MaxPrice are taken over the
\* listings with Price > 0 only, MinPrice and MaxPrice being the least and the
\* greatest such price; without such a listing all three are 0 and
\* MostExpensive is nil.
C16_PriceStatsOnlyOverPriced ==
    ipc = "done" =>
        PriceStatsOverPriced(report.insights) /\ PriceStatsOverPriced(report.part010)

\* What holds of the Generate of part_010 alone.
PriceStatsOnlyOverPricedPart010 == ipc = "done" => PriceStatsOverPriced(report.part010)

\* MostExpensive of report rep is the first listing with the greatest price
FirstMostExpensive(rep) ==
    PricedSet # {} =>
        /\ rep.MostExpensive \in PricedSet
        /\ listings[rep.MostExpensive].Price = rep.MaxPrice
        /\ \A i \in PricedSet :
              /\ listings[i].Price <= listings[rep.MostExpensive].Price
              /\ listings[i].Price = listings[rep.MostExpensive].Price
                    => rep.MostExpensive <= i

\* C17 (as claimed): with at least one listing of Price > 0, MostExpensive is
\* not nil, its Price is MaxPrice, and it is the first listing in input order
\* with the greatest price, also when that is the first priced listing.
C17_MostExpensiveFirstMax ==
    ipc = "done" =>
        FirstMostExpensive(report.insights) /\ FirstMostExpensive(report.part010)

\* What holds of the Generate of part_010 alone.
MostExpensiveFirstMaxPart010 == ipc = "done" => FirstMostExpensive(report.part010)

\* TopRated of report rep: the best min(TopN, rated) listings, best first
BestRatedFirst(rep) ==
    LET top == rep.TopRated
        in == {top[k] : k \in 1..Len(top)}
    IN  /\ in \subseteq RatedSet
        /\ Cardinality(in) = Len(top)
        /\ Len(top) = (IF Cardinality(RatedSet) < 5 THEN Cardinality(RatedSet) ELSE 5)
        /\ \A a, b \in 1..Len(top) :
              a < b => listings[top[a]].Rating >= listings[top[b]].Rating
        /\ \A x \in RatedSet \ in, y \in in : listings[x].Rating <= listings[y].Rating

\* C18: TopRated holds only listings with Rating > 0, exactly min(5, number
\* of rated listings) of them, in non-increasing order of Rating, and no rated
\* listing left out has a higher Rating than one that is in.
C18_TopRatedBestFive ==
    ipc = "done" => BestRatedFirst(report.insights) /\ BestRatedFirst(report.part010)

\* Six rated listings with two ratings in turn: five are kept, the three with
\* the higher rating first, and one with the lower rating is left out.
C18_Witness ==
    /\ ipc = "done" /\ Len(listings) = 6
    /\ \A i \in 1..6 : listings[i].Rating = (IF i % 2 = 0 THEN 490 ELSE 450)
    /\ Len(report.part010.TopRated) = 5
    /\ listings[report.part010.TopRated[3]].Rating = 490
    /\ listings[report.part010.TopRated[4]].Rating = 450

\* in TopRated of report rep listings with equal ratings stand in input order,
\* and a listing left out comes after every listing with its rating that is in
TiesInInputOrder(rep) ==
    LET top == rep.TopRated
        in == {top[k] : k \in 1..Len(top)}
    IN  /\ \A a, b \in 1..Len(top) :
              (a < b /\ listings[top[a]].Rating = listings[top[b]].Rating)
                  => top[a] < top[b]
        /\ \A x \in RatedSet \ in, y \in in :
              listings[x].Rating = listings[y].Rating => y < x

\* C19 (as claimed): listings with equal Rating keep their input order in
\* TopRated, whatever the size of the batch, and of the listings tied at the
\* cut-off the earliest are kept.
C19_TopRatedStable ==
    ipc = "done" => TiesInInputOrder(report.insights) /\ TiesInInputOrder(report.part010)

\* ListingsByLocation of report rep counts the canonical locations
CountsCanonicalLocations(rep) ==
    LET counts == rep.ListingsByLocation
        placed == {i \in 1..Len(listings) : Canonical(listings[i].Location) # <<>>}
    IN  /\ \A key \in DOMAIN counts :
              /\ key # <<>>
              /\ \A k \in 1..Len(key) : key[k] \notin {",", "\n"}
              /\ counts[key] =
                    Cardinality({i \in placed : Canonical(listings[i].Location) = key})
        /\ Sum(counts, DOMAIN counts) = Cardinality(placed)

\* C20 (as claimed): every key of ListingsByLocation is non-empty and free of
\* commas and newlines, its count is the number of listings with that canonical
\* location, and the counts add up to the number of listings whose canonical
\* location is not empty.
C20_LocationKeysCanonical ==
    ipc = "done" =>
        CountsCanonicalLocations(report.insights) /\ CountsCanonicalLocations(report.part010)

C22_EmptyInputEmptyOutput ==
    /\ Clean(<<>>) = <<>>
    /\ (cpc = "cleaned" /\ raw = <<>>) => cleaned = <<>>
    /\ (ipc # "collect" /\ listings = <<>>) =>
          \A rep \in {report.insights, report.part010} :
              /\ rep.TotalListings = 0
              /\ rep.AveragePrice = 0 /\ rep.MinPrice = 0 /\ rep.MaxPrice = 0
              /\ rep.MostExpensive = 0
              /\ rep.TopRated = <<>>
              /\ DOMAIN rep.ListingsByLocation = {}

\* Generate has been called on the empty batch.
C22_Witness == ipc = "done" /\ listings = <<>> /\ report.part010.TotalListings = 0

\* C23: in Do the i-th failed attempt, i < MaxAttempts, is followed by one
\* sleep of BaseDelay * 2^(i-1); no sleep follows a success or the failure of
\* attempt MaxAttempts; a run that made k attempts slept exactly k-1 times.
C23_BackoffDoubles ==
    /\ \A i \in 1..Len(sleeps) : sleeps[i] = rBase * 2^(i - 1)
    /\ Len(sleeps) = Cardinality({i \in 1..Len(routs) : routs[i] # NoErr /\ i < rMax})
    /\ (rpc = "done" /\ Len(routs) >= 1) => Len(sleeps) = Len(routs) - 1

\* Three failed attempts with BaseDelay 2: Do slept 2, then 4, and returned.
C23_Witness ==
    /\ rpc = "done" /\ rMax = 3 /\ rBase = 2 /\ Len(routs) = 3 /\ AllFailed
    /\ sleeps = <<2, 4>>

\* C24: with MaxAttempts <= 0, Do never invokes the operation and returns an
\* error that is not nil.
C24_NoAttemptIsAnError ==
    rMax <= 0 =>
        /\ routs = <<>>
        /\ sleeps = <<>>
        /\ rpc = "done" => ~result.isNil

\* Do has returned with MaxAttempts 0 and with MaxAttempts -1.
C24_Witness ==
    /\ rpc = "done" /\ rMax \in {0, -1} /\ routs = <<>> /\ ~result.isNil
    /\ result.wraps = NoErr /\ result.attempts = rMax

\* ------------------------------------------------- rate gate and progress
\* tasks inside enforceRateLimit, between Lock and Unlock
InGate(t) == tpc[t] \in {"gate_read", "gate_sleep", "gate_stamp", "gate_unlock"}

\* C25: at most one worker is inside enforceRateLimit at a time, and it is the
\* one that holds the mutex; while a worker is there (sleeping or not) a worker
\* at the gate cannot enter it, so it neither reads nor writes lastRequest nor
\* reaches its body, while workers past the gate are not held up by it.
C25_OneWorkerInGate ==
    /\ Cardinality({t \in Tasks : InGate(t)}) <= 1
    /\ \A t \in Tasks : InGate(t) <=> poolMu = t
    /\ \A t \in Tasks :
          (tpc[t] = "gate_lock" /\ \E u \in Tasks : InGate(u)) => ~ENABLED GateLock(t)
    /\ \A t \in Tasks :
          (tpc[t] = "job_run" /\ \E u \in Tasks : InGate(u)) => ENABLED JobEnd(t)

\* One worker sleeps in the gate while a second one waits for the mutex.
C25_Witness ==
    \E t, u \in Tasks :
        /\ tpc[t] = "gate_sleep" /\ twake[t] > now /\ poolMu = t
        /\ tpc[u] = "gate_lock"

\* A body runs while another worker sleeps in the gate.
RunsBesideSleeper ==
    \E t, u \in Tasks : tpc[t] = "gate_sleep" /\ twake[t] > now /\ tpc[u] = "job_run"

\* C26: in a pool with maxWorkers >= 1, under fair scheduling and with bodies
\* that return, every Submit call returns, every submitted task runs its body
\* to the end, gives its slot back and finishes, and every Wait returns; a body
\* is entered once and a finished task stays finished.
C26_PoolMakesProgress ==
    /\ (maxWorkers >= 1 /\ mpc \in {"submit_sem", "submit_go"}) ~> (mpc = "idle")
    /\ \A t \in Tasks :
          (maxWorkers >= 1 /\ nsub >= t) ~> (tpc[t] = "finished" /\ tstart[t] >= 0)
    /\ (maxWorkers >= 1 /\ mpc = "wait") ~> (mpc = "idle" /\ waited = waitFor)
    /\ [](maxWorkers >= 1 /\ wg = 0 /\ mpc \in {"idle", "wait"} => sem = 0)
    /\ [][\A t \in Tasks :
             /\ tpc[t] = "finished" => tpc'[t] = "finished"
             /\ tstart[t] >= 0 => tstart'[t] = tstart[t]]_vars

\* Three tasks went through a pool of one with a rate limit; all finished, the
\* slots are free and Wait has returned.
C26_Witness ==
    /\ maxWorkers = 1 /\ rateLimitMs = 1 /\ nsub = 3
    /\ \A t \in Tasks : tpc[t] = "finished"
    /\ sem = 0 /\ wg = 0 /\ mpc = "idle" /\ waited = Tasks

\* C28 (as claimed): a WorkerPool with maxWorkers < 1 and a RetryConfig with
\* MaxAttempts < 1 do not exist, so no Submit is ever called on such a pool
\* and no Do ever returns from such a policy.
C28_InvalidConfigRejected ==
    /\ maxWorkers < 1 => nsub = 0
    /\ rMax < 1 => rpc # "done"

\* What the pool built by NewWorkerPool(0, d) does: the send of line 31 on the
\* channel without a buffer never completes, since the goroutine that would
\* receive is started after it.
UnbufferedSubmitNeverReturns ==
    [][(maxWorkers = 0 /\ mpc = "submit_sem") => mpc' = "submit_sem"]_vars

\* ----------------------------------------------------- parseLocation claims
\* the location parseLocation tests: trimmed, without its section prefix
CheckedLocation == stripPrefix(TrimSpace(rawLocation))
FailsChecks(loc) ==
    \/ loc = <<>>
    \/ StringsContains(loc, <<"\n">>)
    \/ Len(loc) >= LocationCeiling
    \/ isJunk(loc)
NoPlaceInPageText == ~Leftmost(pageText, 1, nightsInRegexp).ok

\* C27 (as claimed): parseLocation returns the empty string when the location
\* fails a check (empty, a newline inside, at or over the ceiling, a junk
\* phrase inside) and the page text holds no "N nights in <place>"; and a
\* location with a junk phrase inside is never what it returns.
C27_BadLocationGivesEmpty ==
    lpc = "parsed" =>
        /\ (FailsChecks(CheckedLocation) /\ NoPlaceInPageText) => location = <<>>
        /\ isJunk(CheckedLocation) => location # normaliseText(CheckedLocation)

\* What parseLocation does keep: a location that passes the checks is returned
\* with its white space normalised, and a failing one is replaced by the place
\* of the page text when there is one that is no junk phrase.
LocationKeptOrReplaced ==
    lpc = "parsed" =>
        LET m == Leftmost(pageText, 1, nightsInRegexp) IN
        /\ (~FailsChecks(CheckedLocation) /\ CheckedLocation \notin {NotAvailable, Unknown})
              => location = normaliseText(CheckedLocation)
        /\ (FailsChecks(CheckedLocation) /\ m.ok /\ ~isJunk(m.g1))
              => location = normaliseText(m.g1)

\* ------------------------------------------------------ Clean, whole records
\* C29: no text of a raw listing makes Clean drop it or fail: Clean returns as
\* many listings as the batch has distinct URLs that are not empty after
\* trimming, and each of them has a Price >= 0 and a Rating between 0 and 5.
C29_MalformedTextsKeepRecord ==
    cpc = "cleaned" =>
        /\ Len(cleaned) =
              Cardinality({TrimSpace(raw[k].URL) : k \in 1..Len(raw)} \ {<<>>})
        /\ \A i \in 1..Len(cleaned) :
              /\ \A version \in {"cleaner", "strategies"} :
                    /\ cleaned[i].Price[version].num >= 0
                    /\ cleaned[i].Price[version].den > 0
              /\ cleaned[i].Rating \in 0..500

\* Three listings whose texts hold no price and no rating, two of them with
\* one URL, were cleaned into two listings with Price 0 and Rating 0.
C29_Witness ==
    /\ cpc = "cleaned" /\ Len(raw) = 3 /\ Len(cleaned) = 2
    /\ \A k \in 1..3 : raw[k].RawPrice # PlainTexts.RawPrice /\ TrimSpace(raw[k].URL) # <<>>
    /\ \E k \in 1..3 : raw[k].Rating = <<"6", ".", "5">>
    /\ \E k \in 1..3 : raw[k].Rating # <<"6", ".", "5">>
    /\ \A i \in 1..2 :
          cleaned[i].Price.cleaner.num = 0 /\ cleaned[i].Price.strategies.num = 0

\* ------------------------------------------------------ enrichListings
\* the scraping goroutine reads listing i (its URL in the loop of
\* enrichListings, its fields after it) or appends the listings
MainAccesses(i) ==
    /\ mpc = "idle"
    /\ \/ epc = "loop" /\ eidx = i
       \/ epc = "read" /\ (eidx = i \/ eidx > Len(esection))
\* the goroutine of task t exists and has not yet told the wait group that it
\* is done with the listing of its closure
TaskHolds(t, i) == etask[t] = i /\ tpc[t] \notin {"none", "finished"}

\* C30: every listing of the section is in the closure of at most one pool
\* task, and whenever the scraping goroutine reads a listing or appends the
\* listings no task holds that listing: before its Submit the listing has no
\* task, and after it the goroutine comes back to the listing only when
\* pool.Wait has returned, with every task done.
C30_ListingHasOneGoroutine ==
    /\ \A t, u \in Tasks : (t # u /\ etask[t] # 0) => etask[t] # etask[u]
    /\ \A t \in Tasks : etask[t] # 0 => esection[etask[t]].URL # 0
    /\ \A i \in 1..Len(esection) :
          MainAccesses(i) => \A t \in Tasks : ~TaskHolds(t, i)
    /\ (epc \in {"read", "done"} /\ mpc = "idle" /\ Len(esection) > 0) =>
          /\ waited = {t \in Tasks : etask[t] # 0}
          /\ \A t \in Tasks : tpc[t] \in {"none", "finished"}

\* Three listings were enriched by three tasks of a pool of two, and the
\* scraping goroutine reads the second one after Wait.
C30_Witness ==
    /\ maxWorkers = 2 /\ Len(esection) = 3 /\ epc = "read" /\ eidx = 2 /\ mpc = "idle"
    /\ \A i \in 1..3 : \E t \in Tasks : etask[t] = i /\ tpc[t] = "finished"

\* Two tasks work on their listings at once while the third Submit is blocked.
TwoListingsEnrichedAtOnce ==
    /\ mpc = "submit_sem" /\ epc = "loop"
    /\ \E t, u \in Tasks : t # u /\ tpc[t] = "job_run" /\ tpc[u] = "job_run"

====
